---- MODULE Spec2Model ----
(***************************************************************************)
(* The bank statement import of backend/routers/bank_import.py: the CSV    *)
(* normalizer (parse_csv), the rule-based classifier, the AI classifier    *)
(* adapter with its merge and fallback, the post-AI validator and the      *)
(* response builder of parse_bank_csv.                                     *)
(*                                                                         *)
(* Python values are encoded as follows.  A str is the tuple of its        *)
(* characters, so that lower(), strip(), split(), replace() and the `in`   *)
(* substring test are computed character by character.  A float amount is  *)
(* an integer number of hundredths (cents), a confidence an integer number *)
(* of hundredths (0.7 is 70).  A value whose Python type is not fixed (a   *)
(* dict entry that may hold None, a str or a number) is tagged: PyNone,    *)
(* PyStr(s), PyNum(n).  A dict is a function from its keys to its values.  *)
(***************************************************************************)
EXTENDS Integers, Sequences, FiniteSets, TLC

VARIABLES
    instance,   \* _bank_service_instance: "unset", or the constructed service: "model" / "no_model"
    pc,         \* where the request handler parse_bank_csv stands
    csv,        \* request.csv_content as csv.reader yields it: header row, then data rows
    raw,        \* what parse_csv returned for this request (kept for reference; the code mutates in place)
    txs,        \* the transaction dicts being categorized
    ai,         \* the outcome of model.generate_content for this batch
    path,       \* which classifier produced txs: "none", "ai" or "rule"
    resp,       \* the HTTP outcome: status, transactions, summary
    stages,     \* the stages categorize_transactions has gone through for this batch, in order
    reqs,       \* concurrent parse_bank_csv requests: for each, its position and its locals
    receipt,    \* a GeminiService.parse_receipt call: its position, service, model outcome, result
    fx,         \* the exchange_rate_cache table and the last CurrencyService call
    expenses,   \* the expenses table rows and, for each, the upload_receipt call that made it
    cards       \* the cards table, the create_card requests in progress, the last match_card

\* The variables of one parse_bank_csv request handled on its own.
bankVars == <<pc, csv, raw, txs, ai, path, resp, stages>>

\* The variables of the other handlers and services.
routerVars == <<expenses, cards>>
elsewhere == <<reqs, receipt, fx, routerVars>>

vars == <<instance, bankVars, elsewhere>>

-----------------------------------------------------------------------------
(* Python str operations on tuples of characters.                          *)

\* str.lower() on one character (ASCII letters).
ToLower ==
    [c \in {"A","B","C","D","E","F","G","H","I","J","K","L","M","N","O","P","Q",
            "R","S","T","U","V","W","X","Y","Z"} |->
        CASE c = "A" -> "a" [] c = "B" -> "b" [] c = "C" -> "c" [] c = "D" -> "d"
          [] c = "E" -> "e" [] c = "F" -> "f" [] c = "G" -> "g" [] c = "H" -> "h"
          [] c = "I" -> "i" [] c = "J" -> "j" [] c = "K" -> "k" [] c = "L" -> "l"
          [] c = "M" -> "m" [] c = "N" -> "n" [] c = "O" -> "o" [] c = "P" -> "p"
          [] c = "Q" -> "q" [] c = "R" -> "r" [] c = "S" -> "s" [] c = "T" -> "t"
          [] c = "U" -> "u" [] c = "V" -> "v" [] c = "W" -> "w" [] c = "X" -> "x"
          [] c = "Y" -> "y" [] c = "Z" -> "z"]

\* s.lower()
Lower(s) == [i \in 1..Len(s) |-> IF s[i] \in DOMAIN ToLower THEN ToLower[s[i]] ELSE s[i]]

\* k occurs in s at position i
OccursAt(s, k, i) == i + Len(k) - 1 <= Len(s) /\ \A j \in 1..Len(k) : s[i + j - 1] = k[j]

\* the Python test `k in s`
Contains(s, k) == \E i \in 1..(Len(s) - Len(k) + 1) : OccursAt(s, k, i)

\* s.find(k), 1-based; 0 when k does not occur
Find(s, k) ==
    IF Contains(s, k)
    THEN CHOOSE i \in 1..(Len(s) - Len(k) + 1) :
            OccursAt(s, k, i) /\ \A h \in 1..(i - 1) : ~OccursAt(s, k, h)
    ELSE 0

IsSpace(c) == c \in {" ", "\t", "\n", "\r"}

\* s.strip()
Strip(s) ==
    IF \A i \in 1..Len(s) : IsSpace(s[i]) THEN <<>>
    ELSE LET a == CHOOSE i \in 1..Len(s) : ~IsSpace(s[i]) /\ \A h \in 1..(i - 1) : IsSpace(s[h])
             b == CHOOSE i \in 1..Len(s) : ~IsSpace(s[i]) /\ \A h \in (i + 1)..Len(s) : IsSpace(s[h])
         IN  SubSeq(s, a, b)

\* s.split(sep)[0]
SplitFirst(s, sep) == IF Find(s, sep) = 0 THEN s ELSE SubSeq(s, 1, Find(s, sep) - 1)

\* s.split(sep)[-1]: what follows the last separator of the left-to-right split
RECURSIVE SplitLast(_, _)
SplitLast(s, sep) ==
    IF Find(s, sep) = 0 THEN s
    ELSE SplitLast(SubSeq(s, Find(s, sep) + Len(sep), Len(s)), sep)

\* s.replace(old, "")
RECURSIVE Remove(_, _)
Remove(s, old) ==
    IF Find(s, old) = 0 THEN s
    ELSE SubSeq(s, 1, Find(s, old) - 1) \o Remove(SubSeq(s, Find(s, old) + Len(old), Len(s)), old)

-----------------------------------------------------------------------------
(* Python values and dicts.                                                *)

PyNone == [null |-> TRUE]
PyStr(s) == [s |-> s]
PyNum(n) == [n |-> n]

IsNone(v) == DOMAIN v = {"null"}
IsStr(v) == DOMAIN v = {"s"}
IsNum(v) == DOMAIN v = {"n"}

\* bool(v): None, 0 and "" are falsy
Truthy(v) == IF IsNone(v) THEN FALSE ELSE IF IsNum(v) THEN v.n # 0 ELSE v.s # <<>>

\* d.get(k, default)
Get(d, k, default) == IF k \in DOMAIN d THEN d[k] ELSE default

\* d after d[k] = v for every key k of the record kv
Upd(d, kv) == [k \in DOMAIN d \cup DOMAIN kv |-> IF k \in DOMAIN kv THEN kv[k] ELSE d[k]]

\* The lower-case substring patterns tested by _post_ai_validation and _rule_based_categorize,
\* each the tuple of its characters .
Kw ==
    [ funds_transfer |-> <<"f", "u", "n", "d", "s", " ", "t", "r", "a", "n", "s", "f", "e", "r">>,
      payment_thank_you |-> <<"p", "a", "y", "m", "e", "n", "t", " ", "-", " ", "t", "h", "a", "n", "k", " ", "y", "o", "u">>,
      paiement_merci |-> <<"p", "a", "i", "e", "m", "e", "n", "t", " ", "-", " ", "m", "e", "r", "c", "i">>,
      online_banking_transfer |-> <<"o", "n", "l", "i", "n", "e", " ", "b", "a", "n", "k", "i", "n", "g", " ", "t", "r", "a", "n", "s", "f", "e", "r">>,
      credit_memo |-> <<"c", "r", "e", "d", "i", "t", " ", "m", "e", "m", "o">>,
      exchange |-> <<"e", "x", "c", "h", "a", "n", "g", "e">>,
      transfer |-> <<"t", "r", "a", "n", "s", "f", "e", "r">>,
      client_request |-> <<"c", "l", "i", "e", "n", "t", " ", "r", "e", "q", "u", "e", "s", "t">>,
      cash_withdrawal |-> <<"c", "a", "s", "h", " ", "w", "i", "t", "h", "d", "r", "a", "w", "a", "l">>,
      atm_withdrawal |-> <<"a", "t", "m", " ", "w", "i", "t", "h", "d", "r", "a", "w", "a", "l">>,
      debit_memo |-> <<"d", "e", "b", "i", "t", " ", "m", "e", "m", "o">>,
      owner |-> <<"o", "w", "n", "e", "r">>,
      draw |-> <<"d", "r", "a", "w">>,
      gst |-> <<"g", "s", "t">>,
      hst |-> <<"h", "s", "t">>,
      receiver_general |-> <<"r", "e", "c", "e", "i", "v", "e", "r", " ", "g", "e", "n", "e", "r", "a", "l">>,
      rec_gen |-> <<"r", "e", "c", " ", "g", "e", "n">>,
      canada_revenue |-> <<"c", "a", "n", "a", "d", "a", " ", "r", "e", "v", "e", "n", "u", "e">>,
      cra |-> <<"c", "r", "a">>,
      fed_govt |-> <<"f", "e", "d", " ", "g", "o", "v", "t">>,
      e_transfer |-> <<"e", "-", "t", "r", "a", "n", "s", "f", "e", "r">>,
      autodeposit |-> <<"a", "u", "t", "o", "d", "e", "p", "o", "s", "i", "t">>,
      yeliz_bektas |-> <<"y", "e", "l", "i", "z", " ", "b", "e", "k", "t", "a", "s">>,
      ozan_bektas |-> <<"o", "z", "a", "n", " ", "b", "e", "k", "t", "a", "s">>,
      yeliz |-> <<"y", "e", "l", "i", "z">>,
      bektas |-> <<"b", "e", "k", "t", "a", "s">>,
      j_d_factors |-> <<"j", " ", "d", " ", "f", "a", "c", "t", "o", "r", "s">>,
      cash_back_reward |-> <<"c", "a", "s", "h", " ", "b", "a", "c", "k", " ", "r", "e", "w", "a", "r", "d">>,
      deposit |-> <<"d", "e", "p", "o", "s", "i", "t">>,
      misc_payment |-> <<"m", "i", "s", "c", " ", "p", "a", "y", "m", "e", "n", "t">>,
      auto_insurance |-> <<"a", "u", "t", "o", " ", "i", "n", "s", "u", "r", "a", "n", "c", "e">>,
      icbc |-> <<"i", "c", "b", "c">>,
      insurance |-> <<"i", "n", "s", "u", "r", "a", "n", "c", "e">>,
      cafo |-> <<"c", "a", "f", "o">>,
      direct_deposits |-> <<"d", "i", "r", "e", "c", "t", " ", "d", "e", "p", "o", "s", "i", "t", "s">>,
      pay_emp |-> <<"p", "a", "y", " ", "e", "m", "p">>,
      commercial_taxes |-> <<"c", "o", "m", "m", "e", "r", "c", "i", "a", "l", " ", "t", "a", "x", "e", "s">>,
      emptx |-> <<"e", "m", "p", "t", "x">>,
      monthly_fee |-> <<"m", "o", "n", "t", "h", "l", "y", " ", "f", "e", "e">>,
      electronic_transaction_fee |-> <<"e", "l", "e", "c", "t", "r", "o", "n", "i", "c", " ", "t", "r", "a", "n", "s", "a", "c", "t", "i", "o", "n", " ", "f", "e", "e">>,
      service_fee |-> <<"s", "e", "r", "v", "i", "c", "e", " ", "f", "e", "e">>,
      items_on_deposit_fee |-> <<"i", "t", "e", "m", "s", " ", "o", "n", " ", "d", "e", "p", "o", "s", "i", "t", " ", "f", "e", "e">>,
      in_branch_cash_deposited_fee |-> <<"i", "n", " ", "b", "r", "a", "n", "c", "h", " ", "c", "a", "s", "h", " ", "d", "e", "p", "o", "s", "i", "t", "e", "d", " ", "f", "e", "e">>,
      online_banking_wire_fee |-> <<"o", "n", "l", "i", "n", "e", " ", "b", "a", "n", "k", "i", "n", "g", " ", "w", "i", "r", "e", " ", "f", "e", "e">>,
      business_pad |-> <<"b", "u", "s", "i", "n", "e", "s", "s", " ", "p", "a", "d">>,
      tch_canada |-> <<"t", "c", "h", " ", "c", "a", "n", "a", "d", "a">>,
      e_transfer_sent |-> <<"e", "-", "t", "r", "a", "n", "s", "f", "e", "r", " ", "s", "e", "n", "t">>,
      interac_e_transfer_fee |-> <<"i", "n", "t", "e", "r", "a", "c", " ", "e", "-", "t", "r", "a", "n", "s", "f", "e", "r", " ", "f", "e", "e">>,
      bill_payment |-> <<"b", "i", "l", "l", " ", "p", "a", "y", "m", "e", "n", "t">>,
      prov_local_gvt |-> <<"p", "r", "o", "v", "/", "l", "o", "c", "a", "l", " ", "g", "v", "t">>,
      online_banking_wire_payment |-> <<"o", "n", "l", "i", "n", "e", " ", "b", "a", "n", "k", "i", "n", "g", " ", "w", "i", "r", "e", " ", "p", "a", "y", "m", "e", "n", "t">>,
      purchase_interest |-> <<"p", "u", "r", "c", "h", "a", "s", "e", " ", "i", "n", "t", "e", "r", "e", "s", "t">>,
      petro_canada |-> <<"p", "e", "t", "r", "o", "-", "c", "a", "n", "a", "d", "a">>,
      shell |-> <<"s", "h", "e", "l", "l">>,
      esso |-> <<"e", "s", "s", "o">>,
      husky |-> <<"h", "u", "s", "k", "y">>,
      flying_j |-> <<"f", "l", "y", "i", "n", "g", " ", "j">>,
      denny |-> <<"d", "e", "n", "n", "y">>,
      tim_horton |-> <<"t", "i", "m", " ", "h", "o", "r", "t", "o", "n">>,
      mcdonald |-> <<"m", "c", "d", "o", "n", "a", "l", "d">>,
      subway |-> <<"s", "u", "b", "w", "a", "y">>,
      restaurant |-> <<"r", "e", "s", "t", "a", "u", "r", "a", "n", "t">> ]

\* The string literals the classifiers assign (types, categories, payment sources, vendor names,
\* notes) and the separators they split on.
Lit ==
    [ expense |-> <<"e", "x", "p", "e", "n", "s", "e">>,
      income |-> <<"i", "n", "c", "o", "m", "e">>,
      transfer |-> <<"t", "r", "a", "n", "s", "f", "e", "r">>,
      owner_draw |-> <<"o", "w", "n", "e", "r", "_", "d", "r", "a", "w">>,
      tax_refund |-> <<"t", "a", "x", "_", "r", "e", "f", "u", "n", "d">>,
      uncategorized |-> <<"u", "n", "c", "a", "t", "e", "g", "o", "r", "i", "z", "e", "d">>,
      bank_checking |-> <<"b", "a", "n", "k", "_", "c", "h", "e", "c", "k", "i", "n", "g">>,
      e_transfer |-> <<"e", "_", "t", "r", "a", "n", "s", "f", "e", "r">>,
      fuel |-> <<"f", "u", "e", "l">>,
      maintenance_repairs |-> <<"m", "a", "i", "n", "t", "e", "n", "a", "n", "c", "e", "_", "r", "e", "p", "a", "i", "r", "s">>,
      insurance |-> <<"i", "n", "s", "u", "r", "a", "n", "c", "e">>,
      licenses_dues |-> <<"l", "i", "c", "e", "n", "s", "e", "s", "_", "d", "u", "e", "s">>,
      tolls_scales |-> <<"t", "o", "l", "l", "s", "_", "s", "c", "a", "l", "e", "s">>,
      meals_entertainment |-> <<"m", "e", "a", "l", "s", "_", "e", "n", "t", "e", "r", "t", "a", "i", "n", "m", "e", "n", "t">>,
      travel_lodging |-> <<"t", "r", "a", "v", "e", "l", "_", "l", "o", "d", "g", "i", "n", "g">>,
      office_admin |-> <<"o", "f", "f", "i", "c", "e", "_", "a", "d", "m", "i", "n">>,
      factoring_fees |-> <<"f", "a", "c", "t", "o", "r", "i", "n", "g", "_", "f", "e", "e", "s">>,
      payroll |-> <<"p", "a", "y", "r", "o", "l", "l">>,
      subcontractor |-> <<"s", "u", "b", "c", "o", "n", "t", "r", "a", "c", "t", "o", "r">>,
      professional_fees |-> <<"p", "r", "o", "f", "e", "s", "s", "i", "o", "n", "a", "l", "_", "f", "e", "e", "s">>,
      rent_lease |-> <<"r", "e", "n", "t", "_", "l", "e", "a", "s", "e">>,
      loan_interest |-> <<"l", "o", "a", "n", "_", "i", "n", "t", "e", "r", "e", "s", "t">>,
      other_expenses |-> <<"o", "t", "h", "e", "r", "_", "e", "x", "p", "e", "n", "s", "e", "s">>,
      empty |-> <<>>,
      comma |-> <<",">>,
      dash |-> <<" ", "-", " ">>,
      pay_prefix |-> <<"P", "A", "Y", "-">>,
      v_internal_transfer |-> <<"I", "n", "t", "e", "r", "n", "a", "l", " ", "T", "r", "a", "n", "s", "f", "e", "r">>,
      v_credit_card_payment |-> <<"C", "r", "e", "d", "i", "t", " ", "C", "a", "r", "d", " ", "P", "a", "y", "m", "e", "n", "t">>,
      v_rbc |-> <<"R", "B", "C">>,
      v_cash_withdrawal |-> <<"C", "a", "s", "h", " ", "W", "i", "t", "h", "d", "r", "a", "w", "a", "l">>,
      v_owner_draw |-> <<"O", "w", "n", "e", "r", " ", "D", "r", "a", "w">>,
      v_cra_receiver_general |-> <<"C", "R", "A", " ", "/", " ", "R", "e", "c", "e", "i", "v", "e", "r", " ", "G", "e", "n", "e", "r", "a", "l">>,
      v_federal_government |-> <<"F", "e", "d", "e", "r", "a", "l", " ", "G", "o", "v", "e", "r", "n", "m", "e", "n", "t">>,
      v_owner_contribution |-> <<"O", "w", "n", "e", "r", " ", "C", "o", "n", "t", "r", "i", "b", "u", "t", "i", "o", "n">>,
      v_owner |-> <<"O", "w", "n", "e", "r">>,
      v_j_d_factors |-> <<"J", " ", "D", " ", "F", "a", "c", "t", "o", "r", "s">>,
      v_icbc |-> <<"I", "C", "B", "C">>,
      v_cafo_inc |-> <<"C", "A", "F", "O", " ", "I", "n", "c">>,
      v_employee_payroll |-> <<"E", "m", "p", "l", "o", "y", "e", "e", " ", "P", "a", "y", "r", "o", "l", "l">>,
      v_cra |-> <<"C", "R", "A">>,
      v_tch_canada |-> <<"T", "C", "H", " ", "C", "a", "n", "a", "d", "a">>,
      v_wire_payment |-> <<"W", "i", "r", "e", " ", "P", "a", "y", "m", "e", "n", "t">>,
      n_funds_transfer |-> <<"I", "n", "t", "e", "r", "-", "a", "c", "c", "o", "u", "n", "t", " ", "f", "u", "n", "d", "s", " ", "t", "r", "a", "n", "s", "f", "e", "r">>,
      n_credit_card |-> <<"C", "r", "e", "d", "i", "t", " ", "c", "a", "r", "d", " ", "b", "i", "l", "l", " ", "p", "a", "y", "m", "e", "n", "t", " ", "(", "n", "o", "t", " ", "i", "n", "c", "o", "m", "e", "/", "e", "x", "p", "e", "n", "s", "e", ")">>,
      n_online_banking |-> <<"O", "n", "l", "i", "n", "e", " ", "b", "a", "n", "k", "i", "n", "g", " ", "t", "r", "a", "n", "s", "f", "e", "r">>,
      n_credit_memo |-> <<"B", "a", "n", "k", " ", "c", "r", "e", "d", "i", "t", " ", "m", "e", "m", "o", " ", "/", " ", "i", "n", "t", "e", "r", "n", "a", "l", " ", "a", "d", "j", "u", "s", "t", "m", "e", "n", "t">>,
      n_cash_withdrawal_v |-> <<"C", "a", "s", "h", " ", "w", "i", "t", "h", "d", "r", "a", "w", "a", "l", " ", "f", "r", "o", "m", " ", "b", "u", "s", "i", "n", "e", "s", "s", " ", "a", "c", "c", "o", "u", "n", "t", " ", "(", "o", "w", "n", "e", "r", " ", "d", "r", "a", "w", ")">>,
      n_cash_withdrawal_r |-> <<"C", "a", "s", "h", " ", "w", "i", "t", "h", "d", "r", "a", "w", "a", "l", " ", "f", "r", "o", "m", " ", "b", "u", "s", "i", "n", "e", "s", "s", " ", "a", "c", "c", "o", "u", "n", "t">>,
      n_owner_withdrawal |-> <<"O", "w", "n", "e", "r", " ", "w", "i", "t", "h", "d", "r", "a", "w", "a", "l">>,
      n_tax_refund |-> <<"G", "o", "v", "e", "r", "n", "m", "e", "n", "t", " ", "t", "a", "x", " ", "r", "e", "f", "u", "n", "d", " ", "(", "G", "S", "T", "/", "H", "S", "T", " ", "I", "T", "C", ")", " ", "-", " ", "N", "O", "T", " ", "r", "e", "v", "e", "n", "u", "e">>,
      n_fed_govt |-> <<"G", "o", "v", "e", "r", "n", "m", "e", "n", "t", " ", "r", "e", "f", "u", "n", "d", "/", "c", "r", "e", "d", "i", "t", " ", "-", " ", "N", "O", "T", " ", "r", "e", "v", "e", "n", "u", "e">>,
      n_owner_contribution |-> <<"O", "w", "n", "e", "r", " ", "e", "-", "T", "r", "a", "n", "s", "f", "e", "r", " ", "t", "o", " ", "b", "u", "s", "i", "n", "e", "s", "s", " ", "(", "n", "o", "t", " ", "r", "e", "v", "e", "n", "u", "e", ")">>,
      n_personal_e_transfer |-> <<"P", "e", "r", "s", "o", "n", "a", "l", " ", "e", "-", "T", "r", "a", "n", "s", "f", "e", "r", " ", "(", "o", "w", "n", "e", "r", " ", "d", "r", "a", "w", ")">>,
      n_factoring |-> <<"F", "a", "c", "t", "o", "r", "i", "n", "g", " ", "p", "a", "y", "m", "e", "n", "t", " ", "r", "e", "c", "e", "i", "v", "e", "d">>,
      n_bank_credit |-> <<"B", "a", "n", "k", " ", "c", "r", "e", "d", "i", "t">>,
      n_cash_back |-> <<"C", "a", "s", "h", " ", "b", "a", "c", "k", " ", "r", "e", "w", "a", "r", "d">>,
      n_deposit |-> <<"D", "e", "p", "o", "s", "i", "t">>,
      n_payment_received |-> <<"P", "a", "y", "m", "e", "n", "t", " ", "r", "e", "c", "e", "i", "v", "e", "d">>,
      n_e_transfer_received |-> <<"e", "-", "T", "r", "a", "n", "s", "f", "e", "r", " ", "r", "e", "c", "e", "i", "v", "e", "d">>,
      n_auto_insurance |-> <<"A", "u", "t", "o", " ", "i", "n", "s", "u", "r", "a", "n", "c", "e", " ", "p", "r", "e", "m", "i", "u", "m">>,
      n_insurance |-> <<"I", "n", "s", "u", "r", "a", "n", "c", "e", " ", "p", "r", "e", "m", "i", "u", "m">>,
      n_employee_payment |-> <<"E", "m", "p", "l", "o", "y", "e", "e", " ", "p", "a", "y", "m", "e", "n", "t">>,
      n_tax_remittance |-> <<"T", "a", "x", " ", "r", "e", "m", "i", "t", "t", "a", "n", "c", "e">>,
      n_bank_fee |-> <<"B", "a", "n", "k", " ", "f", "e", "e">>,
      n_wire_fee |-> <<"W", "i", "r", "e", " ", "t", "r", "a", "n", "s", "f", "e", "r", " ", "f", "e", "e">>,
      n_lease |-> <<"T", "r", "u", "c", "k", "/", "e", "q", "u", "i", "p", "m", "e", "n", "t", " ", "l", "e", "a", "s", "e", " ", "p", "a", "y", "m", "e", "n", "t">>,
      n_e_transfer_payment |-> <<"e", "-", "T", "r", "a", "n", "s", "f", "e", "r", " ", "p", "a", "y", "m", "e", "n", "t">>,
      n_e_transfer_fee |-> <<"e", "-", "T", "r", "a", "n", "s", "f", "e", "r", " ", "f", "e", "e">>,
      n_bill_payment |-> <<"B", "i", "l", "l", " ", "p", "a", "y", "m", "e", "n", "t">>,
      n_government_payment |-> <<"G", "o", "v", "e", "r", "n", "m", "e", "n", "t", " ", "p", "a", "y", "m", "e", "n", "t">>,
      n_wire_payment |-> <<"W", "i", "r", "e", " ", "p", "a", "y", "m", "e", "n", "t">>,
      n_interest |-> <<"C", "r", "e", "d", "i", "t", " ", "c", "a", "r", "d", " ", "/", " ", "l", "o", "a", "n", " ", "i", "n", "t", "e", "r", "e", "s", "t">>,
      n_fuel |-> <<"F", "u", "e", "l", " ", "p", "u", "r", "c", "h", "a", "s", "e">>,
      n_meal |-> <<"M", "e", "a", "l", "/", "f", "o", "o", "d", " ", "p", "u", "r", "c", "h", "a", "s", "e">> ]

-----------------------------------------------------------------------------
(* parse_csv: the record normalizer.                                       *)

DigitVal ==
    [c \in {"0","1","2","3","4","5","6","7","8","9"} |->
        CASE c = "0" -> 0 [] c = "1" -> 1 [] c = "2" -> 2 [] c = "3" -> 3 [] c = "4" -> 4
          [] c = "5" -> 5 [] c = "6" -> 6 [] c = "7" -> 7 [] c = "8" -> 8 [] c = "9" -> 9]

AllDigits(s) == \A i \in 1..Len(s) : s[i] \in DOMAIN DigitVal

RECURSIVE DigitsValue(_)
DigitsValue(s) ==
    IF s = <<>> THEN 0 ELSE 10 * DigitsValue(SubSeq(s, 1, Len(s) - 1)) + DigitVal[s[Len(s)]]

\* The parts of a decimal literal: sign, digits before the point, digits after it.
FloatParts(s) ==
    LET t    == Strip(s)
        neg  == t # <<>> /\ t[1] = "-"
        body == IF t # <<>> /\ t[1] \in {"-", "+"} THEN Tail(t) ELSE t
        dot  == Find(body, <<".">>)
    IN  [neg  |-> neg,
         int  |-> IF dot = 0 THEN body ELSE SubSeq(body, 1, dot - 1),
         frac |-> IF dot = 0 THEN <<>> ELSE SubSeq(body, dot + 1, Len(body))]

\* float(s) does not raise ValueError: s is a decimal literal.  (Exponents, "inf", "nan"
\* and digit separators, which float() also accepts, are not among the modelled inputs.)
FloatOk(s) ==
    LET p == FloatParts(s)
    IN  AllDigits(p.int) /\ AllDigits(p.frac) /\ Len(p.int) + Len(p.frac) > 0

\* float(s) in hundredths; the modelled literals carry at most two decimals.
FloatVal(s) ==
    LET p    == FloatParts(s)
        f2   == SubSeq(p.frac \o <<"0", "0">>, 1, 2)
        cents == 100 * DigitsValue(p.int) + DigitsValue(f2)
    IN  IF p.neg THEN 0 - cents ELSE cents

\* lines 186-198: an amount column; empty, blank or unparseable text leaves None.
ParseAmount(row, col) ==
    IF Len(row) >= col /\ row[col] # <<>> /\ Strip(row[col]) # <<>> /\ FloatOk(Strip(row[col]))
    THEN PyNum(FloatVal(Strip(row[col])))
    ELSE PyNone

\* The minimum number of fields of a data row (line 183).
MinFields == 7

\* ParseRow without the numbering: every record gets index 0.
ParseRowUnnumbered(idx, row) ==
    [index            |-> 0,
     account_type     |-> Strip(row[1]),
     account_number   |-> Strip(row[2]),
     transaction_date |-> Strip(row[3]),
     cheque_number    |-> Strip(row[4]),
     description1     |-> Strip(row[5]),
     description2     |-> Strip(row[6]),
     amount_cad       |-> ParseAmount(row, 7),
     amount_usd       |-> ParseAmount(row, 8)]

\* lines 200-210: the dict of the data row at 0-based position idx.
ParseRow(idx, row) ==
    [index            |-> idx,
     account_type     |-> Strip(row[1]),
     account_number   |-> Strip(row[2]),
     transaction_date |-> Strip(row[3]),
     cheque_number    |-> Strip(row[4]),
     description1     |-> Strip(row[5]),
     description2     |-> Strip(row[6]),
     amount_cad       |-> ParseAmount(row, 7),
     amount_usd       |-> ParseAmount(row, 8)]

\* The loop numbering only the rows it keeps.
RECURSIVE ParseRowsCountingKept(_, _)
ParseRowsCountingKept(rows, idx) ==
    IF rows = <<>> THEN <<>>
    ELSE IF Len(Head(rows)) < MinFields THEN ParseRowsCountingKept(Tail(rows), idx)
    ELSE <<ParseRow(idx, Head(rows))>> \o ParseRowsCountingKept(Tail(rows), idx + 1)

\* lines 182-211: `for idx, row in enumerate(reader)`, short rows skipped by `continue`.
RECURSIVE ParseRows(_, _)
ParseRows(rows, idx) ==
    IF rows = <<>> THEN <<>>
    ELSE (IF Len(Head(rows)) < MinFields THEN <<>> ELSE <<ParseRow(idx, Head(rows))>>)
         \o ParseRows(Tail(rows), idx + 1)

\* A line with a carriage return inside an unquoted field (a statement saved with CR-only
\* line ends is one such line): csv.reader raises _csv.Error on it instead of yielding a row.
BareCrLine == <<<<"\r">>>>

\* lines 173-182: next(reader, None) or the iteration of the reader raises _csv.Error,
\* which parse_csv does not catch; a blank first line returns before the data lines are read.
ParseCsvRaises(rows) ==
    /\ rows # <<>>
    /\ \/ Head(rows) = BareCrLine
       \/ Head(rows) # <<>> /\ \E i \in 2..Len(rows) : rows[i] = BareCrLine

\* parse_csv(csv_content), on the rows csv.reader yields (when it does not raise).
ParseCsv(rows) ==
    IF rows = <<>> \/ Head(rows) = <<>> THEN <<>> ELSE ParseRows(Tail(rows), 0)

-----------------------------------------------------------------------------
(* The fields the two classifiers read from a transaction dict.            *)

\* (tx.get("description1") or "").lower(), (tx.get("description2") or "").lower()
Desc1(tx) == Lower(tx.description1)
Desc2(tx) == Lower(tx.description2)

\* tx.get("amount_cad") or tx.get("amount_usd") or 0
EffectiveAmount(tx) ==
    IF Truthy(tx.amount_cad) THEN tx.amount_cad.n
    ELSE IF Truthy(tx.amount_usd) THEN tx.amount_usd.n
    ELSE 0

\* any(kw in desc1 or kw in desc2 for kw in kws)
AnyIn(kws, d1, d2) == \E kw \in kws : Contains(d1, kw) \/ Contains(d2, kw)

TaxKeywords == {Kw.gst, Kw.hst, Kw.receiver_general, Kw.rec_gen, Kw.canada_revenue, Kw.cra}
OwnerNames == {Kw.yeliz_bektas, Kw.ozan_bektas, Kw.yeliz, Kw.bektas}
FuelKeywords == {Kw.petro_canada, Kw.shell, Kw.esso, Kw.husky, Kw.flying_j}
MealKeywords == {Kw.denny, Kw.tim_horton, Kw.mcdonald, Kw.subway, Kw.restaurant}

\* Cls with the vendor and the notes arguments taken for each other.
ClsVendorNotesSwapped(type, category, vendor, notes) ==
    [type |-> PyStr(type), category |-> PyStr(category),
     vendor_name |-> PyStr(notes), notes |-> PyStr(vendor)]

\* The four assignments most branches make.
Cls(type, category, vendor, notes) ==
    [type |-> PyStr(type), category |-> PyStr(category),
     vendor_name |-> PyStr(vendor), notes |-> PyStr(notes)]

\* lines 18-23: the fixed vocabulary of expense categories.
VALID_CATEGORIES ==
    { <<"f", "u", "e", "l">>,
      <<"m", "a", "i", "n", "t", "e", "n", "a", "n", "c", "e", "_", "r", "e", "p", "a", "i", "r", "s">>,
      <<"i", "n", "s", "u", "r", "a", "n", "c", "e">>,
      <<"l", "i", "c", "e", "n", "s", "e", "s", "_", "d", "u", "e", "s">>,
      <<"t", "o", "l", "l", "s", "_", "s", "c", "a", "l", "e", "s">>,
      <<"m", "e", "a", "l", "s", "_", "e", "n", "t", "e", "r", "t", "a", "i", "n", "m", "e", "n", "t">>,
      <<"t", "r", "a", "v", "e", "l", "_", "l", "o", "d", "g", "i", "n", "g">>,
      <<"o", "f", "f", "i", "c", "e", "_", "a", "d", "m", "i", "n">>,
      <<"f", "a", "c", "t", "o", "r", "i", "n", "g", "_", "f", "e", "e", "s">>,
      <<"p", "a", "y", "r", "o", "l", "l">>,
      <<"s", "u", "b", "c", "o", "n", "t", "r", "a", "c", "t", "o", "r">>,
      <<"p", "r", "o", "f", "e", "s", "s", "i", "o", "n", "a", "l", "_", "f", "e", "e", "s">>,
      <<"r", "e", "n", "t", "_", "l", "e", "a", "s", "e">>,
      <<"l", "o", "a", "n", "_", "i", "n", "t", "e", "r", "e", "s", "t">>,
      <<"o", "t", "h", "e", "r", "_", "e", "x", "p", "e", "n", "s", "e", "s">>,
      <<"u", "n", "c", "a", "t", "e", "g", "o", "r", "i", "z", "e", "d">> }

-----------------------------------------------------------------------------
(* _rule_based_categorize: the ordered cascade, first match wins.          *)

\* lines 455-489: the positive-amount branch.
RuleIncome(tx) ==
    LET desc1 == Desc1(tx)
        desc2 == Desc2(tx)
        d1 == tx.description1
        d2 == tx.description2
    IN  IF Contains(desc2, Kw.j_d_factors)
        THEN Cls(Lit.income, Lit.income, Lit.v_j_d_factors, Lit.n_factoring)
        ELSE IF Contains(desc1, Kw.credit_memo)
        THEN Cls(Lit.income, Lit.income, Lit.v_rbc, Lit.n_bank_credit)
        ELSE IF Contains(desc1, Kw.cash_back_reward)
        THEN Cls(Lit.income, Lit.income, Lit.v_rbc, Lit.n_cash_back)
        ELSE IF Contains(desc1, Kw.deposit)
        THEN Cls(Lit.income, Lit.income, d1, Lit.n_deposit)
        ELSE IF Contains(desc1, Kw.misc_payment)
        THEN Cls(Lit.income, Lit.income, IF d2 # <<>> THEN d2 ELSE d1, Lit.n_payment_received)
        ELSE IF Contains(desc1, Kw.e_transfer) \/ Contains(desc1, Kw.autodeposit)
        THEN Cls(Lit.income, Lit.income,
                 IF d2 # <<>> THEN Strip(SplitLast(d2, Lit.dash)) ELSE d1,
                 Lit.n_e_transfer_received)
        ELSE [type |-> PyStr(Lit.income), category |-> PyStr(Lit.income), vendor_name |-> PyStr(d1)]

\* lines 496-563: category, vendor and notes of the expense branch.
RuleExpenseCategory(tx) ==
    LET desc1 == Desc1(tx)
        desc2 == Desc2(tx)
        d1 == tx.description1
        d2 == tx.description2
        Cat(category, vendor, notes) ==
            [category |-> PyStr(category), vendor_name |-> PyStr(vendor), notes |-> PyStr(notes)]
        brand == IF Contains(d1, Lit.dash) THEN Strip(SplitFirst(d1, Lit.dash)) ELSE d1
    IN  IF Contains(desc1, Kw.auto_insurance) \/ Contains(desc2, Kw.icbc)
        THEN Cat(Lit.insurance, Lit.v_icbc, Lit.n_auto_insurance)
        ELSE IF Contains(desc1, Kw.insurance) /\ Contains(desc2, Kw.cafo)
        THEN Cat(Lit.insurance, Lit.v_cafo_inc, Lit.n_insurance)
        ELSE IF Contains(desc1, Kw.direct_deposits) \/ Contains(desc2, Kw.pay_emp)
        THEN Cat(Lit.payroll, Lit.v_employee_payroll, Lit.n_employee_payment)
        ELSE IF Contains(desc1, Kw.commercial_taxes) \/ Contains(desc2, Kw.emptx)
        THEN Cat(Lit.other_expenses, Lit.v_cra, Lit.n_tax_remittance)
        ELSE IF \/ Contains(desc1, Kw.monthly_fee)
                \/ Contains(desc1, Kw.electronic_transaction_fee)
                \/ Contains(desc1, Kw.service_fee)
        THEN Cat(Lit.office_admin, Lit.v_rbc, Lit.n_bank_fee)
        ELSE IF \/ Contains(desc1, Kw.items_on_deposit_fee)
                \/ Contains(desc1, Kw.in_branch_cash_deposited_fee)
        THEN Cat(Lit.office_admin, Lit.v_rbc, Lit.n_bank_fee)
        ELSE IF Contains(desc1, Kw.online_banking_wire_fee)
        THEN Cat(Lit.office_admin, Lit.v_rbc, Lit.n_wire_fee)
        ELSE IF Contains(desc1, Kw.business_pad) /\ Contains(desc2, Kw.tch_canada)
        THEN Cat(Lit.rent_lease, Lit.v_tch_canada, Lit.n_lease)
        ELSE IF Contains(desc1, Kw.e_transfer_sent) \/ Contains(desc1, Kw.e_transfer)
        THEN [category |-> PyStr(Lit.other_expenses),
              payment_source |-> PyStr(Lit.e_transfer),
              vendor_name |-> PyStr(IF d2 # <<>> THEN SplitFirst(d2, Lit.comma) ELSE Lit.empty),
              notes |-> PyStr(Lit.n_e_transfer_payment)]
        ELSE IF Contains(desc1, Kw.interac_e_transfer_fee)
        THEN Cat(Lit.office_admin, Lit.v_rbc, Lit.n_e_transfer_fee)
        ELSE IF Contains(desc1, Kw.bill_payment)
        THEN Cat(Lit.office_admin,
                 IF d2 # <<>> THEN Remove(d2, Lit.pay_prefix) ELSE Lit.empty,
                 Lit.n_bill_payment)
        ELSE IF Contains(desc1, Kw.prov_local_gvt)
        THEN Cat(Lit.other_expenses, d2, Lit.n_government_payment)
        ELSE IF Contains(desc1, Kw.online_banking_wire_payment)
        THEN Cat(Lit.other_expenses, IF d2 # <<>> THEN d2 ELSE Lit.v_wire_payment, Lit.n_wire_payment)
        ELSE IF Contains(desc1, Kw.purchase_interest)
        THEN Cat(Lit.loan_interest, Lit.v_rbc, Lit.n_interest)
        ELSE IF AnyIn(FuelKeywords, desc1, desc2)
        THEN Cat(Lit.fuel, brand, Lit.n_fuel)
        ELSE IF AnyIn(MealKeywords, desc1, desc2)
        THEN Cat(Lit.meals_entertainment, brand, Lit.n_meal)
        ELSE [category |-> PyStr(Lit.uncategorized), vendor_name |-> PyStr(d1)]

\* The expense branch filing every expense under the name of its type.
RuleExpenseAsType(tx) ==
    Upd([type |-> PyStr(Lit.expense), payment_source |-> PyStr(Lit.bank_checking)],
        [RuleExpenseCategory(tx) EXCEPT !.category = PyStr(Lit.expense)])

\* lines 490-563: the expense branch, entered for every amount that is not positive.
RuleExpense(tx) ==
    Upd([type |-> PyStr(Lit.expense), payment_source |-> PyStr(Lit.bank_checking)],
        RuleExpenseCategory(tx))

\* lines 394-563: the assignments the cascade makes to one transaction.
RuleFields(tx) ==
    LET desc1  == Desc1(tx)
        desc2  == Desc2(tx)
        amount == EffectiveAmount(tx)
        d2     == tx.description2
    IN  IF Contains(desc1, Kw.funds_transfer) \/ Contains(desc2, Kw.funds_transfer)
        THEN Cls(Lit.transfer, Lit.transfer, Lit.v_internal_transfer, Lit.n_funds_transfer)
        ELSE IF Contains(desc1, Kw.payment_thank_you) \/ Contains(desc1, Kw.paiement_merci)
        THEN Cls(Lit.transfer, Lit.transfer, Lit.v_credit_card_payment, Lit.n_credit_card)
        ELSE IF Contains(desc1, Kw.online_banking_transfer)
        THEN Cls(Lit.transfer, Lit.transfer, Lit.v_internal_transfer, Lit.n_online_banking)
        ELSE IF Contains(desc1, Kw.cash_withdrawal) \/ Contains(desc1, Kw.atm_withdrawal)
        THEN Cls(Lit.owner_draw, Lit.owner_draw, Lit.v_cash_withdrawal, Lit.n_cash_withdrawal_r)
        ELSE IF Contains(desc1, Kw.debit_memo) /\ (Contains(desc2, Kw.owner) \/ Contains(desc2, Kw.draw))
        THEN Cls(Lit.owner_draw, Lit.owner_draw, Lit.v_owner_draw, Lit.n_owner_withdrawal)
        ELSE IF /\ (Contains(desc1, Kw.e_transfer) \/ Contains(desc1, Kw.autodeposit))
                /\ \E name \in OwnerNames : Contains(desc2, name)
        THEN IF amount > 0
             THEN Cls(Lit.transfer, Lit.transfer, Lit.v_owner_contribution, Lit.n_owner_contribution)
             ELSE Cls(Lit.owner_draw, Lit.owner_draw,
                      IF d2 # <<>> THEN SplitFirst(d2, Lit.comma) ELSE Lit.v_owner,
                      Lit.n_personal_e_transfer)
        ELSE IF /\ Contains(desc1, Kw.credit_memo)
                /\ \/ Contains(desc2, Kw.exchange)
                   \/ Contains(desc2, Kw.transfer)
                   \/ Contains(desc2, Kw.client_request)
        THEN Cls(Lit.transfer, Lit.transfer, Lit.v_rbc, Lit.n_credit_memo)
        ELSE IF amount > 0 /\ AnyIn(TaxKeywords, desc1, desc2)
        THEN Cls(Lit.tax_refund, Lit.tax_refund, Lit.v_cra_receiver_general, Lit.n_tax_refund)
        ELSE IF amount > 0 /\ (Contains(desc1, Kw.fed_govt) \/ Contains(desc2, Kw.fed_govt))
        THEN Cls(Lit.tax_refund, Lit.tax_refund, Lit.v_federal_government, Lit.n_fed_govt)
        ELSE IF amount > 0
        THEN RuleIncome(tx)
        ELSE RuleExpense(tx)

\* The confidence every rule-based classification carries (line 565: 0.7), in hundredths.
RuleConfidence == 70

\* One iteration of the loop of lines 393-565.
RuleBasedOne(tx) == Upd(Upd(tx, RuleFields(tx)), [confidence |-> PyNum(RuleConfidence)])

\* _rule_based_categorize(transactions)
RuleBasedCategorize(transactions) ==
    [i \in 1..Len(transactions) |-> RuleBasedOne(transactions[i])]

-----------------------------------------------------------------------------
(* _post_ai_validation: the forced overrides applied after an AI merge.    *)

\* Override without its guard, the notes recording the type the record had.
OverrideUnguarded(tx, fields) == Upd(tx, [fields EXCEPT !.notes = Get(tx, "type", PyNone)])

\* Override that trusts a confident AI: no override at a confidence of 0.9 or more.
OverrideWhenUnsure(tx, fields) ==
    IF IsNum(Get(tx, "confidence", PyNone)) /\ tx.confidence.n >= 90 THEN tx
    ELSE IF Get(tx, "type", PyNone) # fields.type THEN Upd(tx, fields) ELSE tx

\* Override that corrects the type alone.
OverrideTypeOnly(tx, fields) ==
    IF Get(tx, "type", PyNone) # fields.type THEN Upd(tx, [type |-> fields.type]) ELSE tx

\* Override that also marks the corrected record as certain.
OverrideMarkingCertain(tx, fields) ==
    IF Get(tx, "type", PyNone) # fields.type
    THEN Upd(tx, [type |-> fields.type, category |-> fields.category,
                  vendor_name |-> fields.vendor_name, notes |-> fields.notes,
                  confidence |-> PyNum(100)])
    ELSE tx

\* The guarded assignment every branch makes: `if tx.get("type") != T:` then type,
\* category, vendor_name and notes are overwritten (lines 294-300, and alike below).
Override(tx, fields) ==
    IF Get(tx, "type", PyNone) # fields.type THEN Upd(tx, fields) ELSE tx

\* One iteration of the loop of lines 287-384.
PostAiOne(tx) ==
    LET desc1  == Desc1(tx)
        desc2  == Desc2(tx)
        amount == EffectiveAmount(tx)
        d2     == tx.description2
    IN  IF Contains(desc1, Kw.funds_transfer) \/ Contains(desc2, Kw.funds_transfer)
        THEN Override(tx, Cls(Lit.transfer, Lit.transfer, Lit.v_internal_transfer, Lit.n_funds_transfer))
        ELSE IF \/ Contains(desc1, Kw.payment_thank_you)
                \/ Contains(desc1, Kw.paiement_merci)
                \/ Contains(desc2, Kw.payment_thank_you)
        THEN Override(tx, Cls(Lit.transfer, Lit.transfer, Lit.v_credit_card_payment, Lit.n_credit_card))
        ELSE IF Contains(desc1, Kw.online_banking_transfer)
        THEN Override(tx, Cls(Lit.transfer, Lit.transfer, Lit.v_internal_transfer, Lit.n_online_banking))
        ELSE IF /\ Contains(desc1, Kw.credit_memo)
                /\ \/ Contains(desc2, Kw.exchange)
                   \/ Contains(desc2, Kw.transfer)
                   \/ Contains(desc2, Kw.client_request)
        THEN Override(tx, Cls(Lit.transfer, Lit.transfer, Lit.v_rbc, Lit.n_credit_memo))
        ELSE IF Contains(desc1, Kw.cash_withdrawal) \/ Contains(desc1, Kw.atm_withdrawal)
        THEN Override(tx, Cls(Lit.owner_draw, Lit.owner_draw, Lit.v_cash_withdrawal, Lit.n_cash_withdrawal_v))
        ELSE IF Contains(desc1, Kw.debit_memo) /\ (Contains(desc2, Kw.owner) \/ Contains(desc2, Kw.draw))
        THEN Override(tx, Cls(Lit.owner_draw, Lit.owner_draw, Lit.v_owner_draw, Lit.n_owner_withdrawal))
        ELSE IF AnyIn(TaxKeywords, desc1, desc2)
        THEN IF amount > 0
             THEN Override(tx, Cls(Lit.tax_refund, Lit.tax_refund, Lit.v_cra_receiver_general, Lit.n_tax_refund))
             ELSE tx
        ELSE IF Contains(desc1, Kw.fed_govt) \/ Contains(desc2, Kw.fed_govt)
        THEN IF amount > 0
             THEN Override(tx, Cls(Lit.tax_refund, Lit.tax_refund, Lit.v_federal_government, Lit.n_fed_govt))
             ELSE tx
        ELSE IF /\ (Contains(desc1, Kw.e_transfer) \/ Contains(desc1, Kw.autodeposit))
                /\ \E name \in OwnerNames : Contains(desc2, name)
        THEN IF amount > 0
             THEN Override(tx, Cls(Lit.transfer, Lit.transfer, Lit.v_owner_contribution, Lit.n_owner_contribution))
             ELSE Override(tx, Cls(Lit.owner_draw, Lit.owner_draw,
                                   IF d2 # <<>> THEN SplitFirst(d2, Lit.comma) ELSE Lit.v_owner,
                                   Lit.n_personal_e_transfer))
        ELSE tx

\* _post_ai_validation(transactions)
PostAiValidation(transactions) ==
    [i \in 1..Len(transactions) |-> PostAiOne(transactions[i])]

-----------------------------------------------------------------------------
(* categorize_transactions: the AI classifier adapter.                     *)
(*                                                                         *)
(* The text of a model response is a sequence of lines, each one of        *)
(*   [t |-> "fence", bare |-> b]   a code-fence line: "```" (bare) or "```json" *)
(*   [t |-> "json", v |-> value]   a line that is one whole JSON document  *)
(*   [t |-> "prose"]               any other non-blank text                *)
(* A JSON document is [t |-> "array", items |-> seq], [t |-> "object",     *)
(* empty |-> b] or [t |-> "scalar"] (a number, true, false or null); an    *)
(* array item is [t |-> "dict", d |-> dict of tagged values] or            *)
(* [t |-> "other"] (anything that is not a JSON object).                   *)

\* lines 246-253: the code fences are removed when the text starts with one.
StripFences(lines) ==
    IF lines # <<>> /\ Head(lines).t = "fence"
    THEN LET rest == Tail(lines)
         IN  IF rest # <<>> /\ rest[Len(rest)].t = "fence" /\ rest[Len(rest)].bare
             THEN SubSeq(rest, 1, Len(rest) - 1)
             ELSE rest
    ELSE lines

\* json.loads(content) does not raise JSONDecodeError: the content is one JSON document.
JsonOk(lines) == Len(lines) = 1 /\ lines[1].t = "json"

\* line 258: the dict comprehension {item["index"]: item for item in categorized} raises
\* TypeError when categorized is not iterable or an item is not subscriptable by a str,
\* KeyError when an item has no "index" key.
CatMapRaises(categorized) ==
    \/ categorized.t = "scalar"
    \/ categorized.t = "object" /\ ~categorized.empty
    \/ /\ categorized.t = "array"
       /\ \E i \in 1..Len(categorized.items) :
            \/ categorized.items[i].t # "dict"
            \/ "index" \notin DOMAIN categorized.items[i].d

\* The items of the response (none when it is an empty object).
ItemsOf(categorized) == IF categorized.t = "array" THEN categorized.items ELSE <<>>

\* line 261: cat_map.get(tx["index"], {}); of several items with one index the last one stays.
CatMapGet(items, idx) ==
    LET hits == {i \in 1..Len(items) : items[i].d.index = PyNum(idx)}
    IN  IF hits = {} THEN [x \in {} |-> PyNone]
        ELSE items[CHOOSE i \in hits : \A h \in hits : h <= i].d

\* The confidence of a record the response says nothing about (line 267: 0.5), in hundredths.
DefaultConfidence == 50

\* MergeOne with an empty vendor name, instead of description1, when the item names none.
MergeOneVendorEmpty(tx, ai_data) ==
    Upd(tx, [type           |-> Get(ai_data, "type", PyStr(Lit.expense)),
             category       |-> Get(ai_data, "category", PyStr(Lit.uncategorized)),
             payment_source |-> Get(ai_data, "payment_source", PyStr(Lit.bank_checking)),
             vendor_name    |-> Get(ai_data, "vendor_name", PyStr(Lit.empty)),
             notes          |-> Get(ai_data, "notes", PyStr(Lit.empty)),
             confidence     |-> Get(ai_data, "confidence", PyNum(DefaultConfidence))])

\* lines 262-267: the merge of one transaction with its item.
MergeOne(tx, ai_data) ==
    Upd(tx, [type           |-> Get(ai_data, "type", PyStr(Lit.expense)),
             category       |-> Get(ai_data, "category", PyStr(Lit.uncategorized)),
             payment_source |-> Get(ai_data, "payment_source", PyStr(Lit.bank_checking)),
             vendor_name    |-> Get(ai_data, "vendor_name", PyStr(tx.description1)),
             notes          |-> Get(ai_data, "notes", PyStr(Lit.empty)),
             confidence     |-> Get(ai_data, "confidence", PyNum(DefaultConfidence))])

\* lines 260-267: the merge loop.
Merge(transactions, items) ==
    [i \in 1..Len(transactions) |-> MergeOne(transactions[i], CatMapGet(items, transactions[i].index))]

\* The items before the first one that is no object or has no "index" key.
RECURSIVE WellFormedPrefix(_)
WellFormedPrefix(items) ==
    IF items = <<>> \/ Head(items).t # "dict" \/ "index" \notin DOMAIN Head(items).d THEN <<>>
    ELSE <<Head(items)>> \o WellFormedPrefix(Tail(items))

\* TryAi merging each item as it reads it: a malformed item raises after the records of
\* the items before it have been merged.
TryAiMergeAsItGoes(transactions, outcome) ==
    LET content == StripFences(outcome.text)
        MergeHit(tx, items) ==
            IF DOMAIN CatMapGet(items, tx.index) = {} THEN tx
            ELSE MergeOne(tx, CatMapGet(items, tx.index))
    IN  IF outcome.kind = "raise" THEN [raised |-> TRUE, txs |-> transactions]
        ELSE IF ~JsonOk(content) THEN [raised |-> TRUE, txs |-> transactions]
        ELSE IF CatMapRaises(content[1].v)
        THEN [raised |-> TRUE,
              txs |-> [i \in 1..Len(transactions) |->
                         MergeHit(transactions[i], WellFormedPrefix(ItemsOf(content[1].v)))]]
        ELSE [raised |-> FALSE,
              txs |-> PostAiValidation(Merge(transactions, ItemsOf(content[1].v)))]

\* lines 220-271: the try block once generate_content has returned or raised: whether it
\* left by an exception, and the transactions as it left them.
TryAi(transactions, outcome) ==
    LET content == StripFences(outcome.text)
    IN  IF outcome.kind = "raise" THEN [raised |-> TRUE, txs |-> transactions]
        ELSE IF ~JsonOk(content) THEN [raised |-> TRUE, txs |-> transactions]
        ELSE IF CatMapRaises(content[1].v) THEN [raised |-> TRUE, txs |-> transactions]
        ELSE [raised |-> FALSE,
              txs |-> PostAiValidation(Merge(transactions, ItemsOf(content[1].v)))]

\* An except clause that treats a failed call as an empty answer: defaults, then validator.
OnAiFailureDefaults(transactions) == PostAiValidation(Merge(transactions, <<>>))

\* lines 273-278: both except clauses.
OnAiFailure(transactions) == RuleBasedCategorize(transactions)

\* The stages of categorize_transactions: the model call of line 241, the merge loop of
\* lines 260-267, the validator call of line 270, the rule-based calls of lines 218, 275, 278.
Stage == [ai_call |-> "ai_call", merge |-> "merge", validator |-> "validator",
          rule_based |-> "rule_based"]

\* StagesAfterCall with the except clauses reached from inside the validator.
StagesValidatorThenRules(raised) ==
    IF raised THEN <<Stage.merge, Stage.validator, Stage.rule_based>>
    ELSE <<Stage.merge, Stage.validator>>

\* lines 243-278: the stages that follow the model call; an exception leaves the try block
\* before the merge loop and reaches one of the except clauses.
StagesAfterCall(raised) == IF raised THEN <<Stage.rule_based>> ELSE <<Stage.merge, Stage.validator>>

-----------------------------------------------------------------------------
(* parse_bank_csv, step 3: the response.                                   *)

\* pydantic accepts a value for a `str` field of BankTransaction (lines 126-130)
ValidStr(v) == IsStr(v)

\* pydantic accepts a value for the `float` field confidence (line 131): a number, or a
\* str that reads as one
ValidFloat(v) == IsNum(v) \/ (IsStr(v) /\ FloatOk(v.s))

\* the float pydantic makes of an accepted value, in hundredths
AsFloat(v) == IF IsNum(v) THEN v.n ELSE FloatVal(v.s)

\* lines 628-641: the arguments of BankTransaction(...) for one categorized dict.
TransactionArgs(tx) ==
    [index            |-> tx.index,
     transaction_date |-> tx.transaction_date,
     description1     |-> tx.description1,
     description2     |-> tx.description2,
     amount_cad       |-> tx.amount_cad,
     amount_usd       |-> tx.amount_usd,
     type             |-> Get(tx, "type", PyStr(Lit.expense)),
     category         |-> Get(tx, "category", PyStr(Lit.uncategorized)),
     payment_source   |-> Get(tx, "payment_source", PyStr(Lit.bank_checking)),
     vendor_name      |-> Get(tx, "vendor_name", PyStr(Lit.empty)),
     notes            |-> Get(tx, "notes", PyStr(Lit.empty)),
     confidence       |-> Get(tx, "confidence", PyNum(DefaultConfidence))]

\* BankTransaction(...) raises no ValidationError (lines 117-131)
ValidTransaction(a) ==
    /\ ValidStr(a.type) /\ ValidStr(a.category) /\ ValidStr(a.payment_source)
    /\ ValidStr(a.vendor_name) /\ ValidStr(a.notes)
    /\ ValidFloat(a.confidence)

\* the BankTransaction object built from valid arguments
BankTransaction(a) == [a EXCEPT !.confidence = PyNum(AsFloat(a.confidence))]

Abs(n) == IF n < 0 THEN 0 - n ELSE n

\* lines 610-626: the sum of abs(amount) over the dicts whose type is one of `types`
RECURSIVE TotalOf(_, _)
TotalOf(categorized, types) ==
    IF categorized = <<>> THEN 0
    ELSE (IF \E t \in types : Get(Head(categorized), "type", PyNone) = PyStr(t)
          THEN Abs(EffectiveAmount(Head(categorized))) ELSE 0)
         + TotalOf(Tail(categorized), types)

\* lines 654-657: sum(1 for t in transactions if t.type == type)
CountOf(transactions, type) ==
    Cardinality({i \in 1..Len(transactions) : transactions[i].type = PyStr(type)})

\* lines 643-646: the detected account currency
AccountCurrency(categorized) ==
    LET has_cad == \E i \in 1..Len(categorized) :
                      ~IsNone(categorized[i].amount_cad) /\ categorized[i].amount_cad.n # 0
        has_usd == \E i \in 1..Len(categorized) :
                      ~IsNone(categorized[i].amount_usd) /\ categorized[i].amount_usd.n # 0
    IN  IF has_usd /\ ~has_cad THEN "USD"
        ELSE IF has_cad /\ ~has_usd THEN "CAD"
        ELSE "MIXED"

\* lines 648-659: the summary dict (amounts in hundredths, so round(x, 2) keeps them)
Summary(categorized, transactions) ==
    [total_transactions |-> Len(transactions),
     total_income       |-> TotalOf(categorized, {Lit.income}),
     total_expenses     |-> TotalOf(categorized, {Lit.expense, Lit.owner_draw}),
     total_transfers    |-> TotalOf(categorized, {Lit.transfer}),
     total_tax_refunds  |-> TotalOf(categorized, {Lit.tax_refund}),
     expense_count      |-> CountOf(transactions, Lit.expense),
     income_count       |-> CountOf(transactions, Lit.income),
     transfer_count     |-> CountOf(transactions, Lit.transfer),
     tax_refund_count   |-> CountOf(transactions, Lit.tax_refund),
     account_currency   |-> AccountCurrency(categorized)]

\* The HTTP status codes of the handler (fastapi.status).
HTTP_200_OK == 200
HTTP_400_BAD_REQUEST == 400
HTTP_500_INTERNAL_SERVER_ERROR == 500

NoResponse == [status |-> 0]

\* lines 608-676: the response for a categorized batch; a ValidationError raised by
\* BankTransaction(...) is caught by `except Exception` and becomes a 500.
BuildResponse(categorized) ==
    LET args == [i \in 1..Len(categorized) |-> TransactionArgs(categorized[i])]
    IN  IF \A i \in 1..Len(args) : ValidTransaction(args[i])
        THEN LET transactions == [i \in 1..Len(args) |-> BankTransaction(args[i])]
             IN  [status       |-> HTTP_200_OK,
                  transactions |-> transactions,
                  summary      |-> Summary(categorized, transactions)]
        ELSE [status |-> HTTP_500_INTERNAL_SERVER_ERROR]

-----------------------------------------------------------------------------
\* The (Description 1, Description 2) pairs of the modelled statement lines.
Descriptions ==
    { <<<<"F", "u", "n", "d", "s", " ", "t", "r", "a", "n", "s", "f", "e", "r">>, <<>>>>,
      <<<<"C", "a", "s", "h", " ", "w", "i", "t", "h", "d", "r", "a", "w", "a", "l">>, <<>>>>,
      <<<<"M", "i", "s", "c", " ", "P", "a", "y", "m", "e", "n", "t">>, <<"J", " ", "D", " ", "F", "A", "C", "T", "O", "R", "S">>>>,
      <<<<"F", "u", "n", "d", "s", " ", "t", "r", "a", "n", "s", "f", "e", "r">>, <<"S", "H", "E", "L", "L", " ", "1", "2", "3", "4">>>>,
      <<<<"P", "E", "T", "R", "O", "-", "C", "A", "N", "A", "D", "A">>, <<"F", "u", "n", "d", "s", " ", "t", "r", "a", "n", "s", "f", "e", "r">>>>,
      <<<<"M", "i", "s", "c", " ", "P", "a", "y", "m", "e", "n", "t">>, <<"P", "A", "Y", "M", "E", "N", "T", " ", "-", " ", "T", "H", "A", "N", "K", " ", "Y", "O", "U", " ", "/", " ", "P", "A", "I", "E", "M", "E", "N", "T", " ", "-", " ", "M", "E", "R", "C", "I">>>>,
      <<<<"P", "A", "Y", "M", "E", "N", "T", " ", "-", " ", "T", "H", "A", "N", "K", " ", "Y", "O", "U", " ", "/", " ", "P", "A", "I", "E", "M", "E", "N", "T", " ", "-", " ", "M", "E", "R", "C", "I">>, <<>>>>,
      <<<<"V", "i", "s", "a">>, <<"P", "A", "I", "E", "M", "E", "N", "T", " ", "-", " ", "M", "E", "R", "C", "I">>>>,
      <<<<"O", "n", "l", "i", "n", "e", " ", "B", "a", "n", "k", "i", "n", "g", " ", "t", "r", "a", "n", "s", "f", "e", "r">>, <<"1", "2", "3", "4">>>>,
      <<<<"A", "T", "M", " ", "w", "i", "t", "h", "d", "r", "a", "w", "a", "l">>, <<>>>>,
      <<<<"W", "i", "t", "h", "d", "r", "a", "w", "a", "l">>, <<"C", "a", "s", "h", " ", "w", "i", "t", "h", "d", "r", "a", "w", "a", "l">>>>,
      <<<<"C", "a", "s", "h", " ", "w", "i", "t", "h", "d", "r", "a", "w", "a", "l">>, <<"F", "u", "n", "d", "s", " ", "t", "r", "a", "n", "s", "f", "e", "r">>>>,
      <<<<"D", "e", "b", "i", "t", " ", "M", "e", "m", "o">>, <<"O", "W", "N", "E", "R", " ", "D", "R", "A", "W">>>>,
      <<<<"e", "-", "T", "r", "a", "n", "s", "f", "e", "r", " ", "s", "e", "n", "t">>, <<"Y", "e", "l", "i", "z", " ", "B", "e", "k", "t", "a", "s", ",", " ", "r", "e", "f", " ", "1", "2">>>>,
      <<<<"e", "-", "T", "r", "a", "n", "s", "f", "e", "r", " ", "-", " ", "A", "u", "t", "o", "d", "e", "p", "o", "s", "i", "t">>, <<"O", "Z", "A", "N", " ", "B", "E", "K", "T", "A", "S">>>>,
      <<<<"e", "-", "T", "r", "a", "n", "s", "f", "e", "r", " ", "s", "e", "n", "t">>, <<"Y", "e", "l", "i", "z", " ", "B", "e", "k", "t", "a", "s", " ", "H", "S", "T">>>>,
      <<<<"e", "-", "T", "r", "a", "n", "s", "f", "e", "r", " ", "s", "e", "n", "t">>, <<"J", "o", "h", "n", " ", "S", "m", "i", "t", "h", ",", " ", "r", "e", "f", " ", "7">>>>,
      <<<<"e", "-", "T", "r", "a", "n", "s", "f", "e", "r", " ", "-", " ", "A", "u", "t", "o", "d", "e", "p", "o", "s", "i", "t">>, <<"A", "C", "M", "E", " ", "-", " ", "J", "o", "h", "n", " ", "S", "m", "i", "t", "h", " ">>>>,
      <<<<"C", "r", "e", "d", "i", "t", " ", "M", "e", "m", "o">>, <<"C", "U", "R", "R", "E", "N", "C", "Y", " ", "E", "X", "C", "H", "A", "N", "G", "E">>>>,
      <<<<"C", "r", "e", "d", "i", "t", " ", "M", "e", "m", "o">>, <<>>>>,
      <<<<"C", "r", "e", "d", "i", "t", " ", "M", "e", "m", "o", " ", "c", "a", "s", "h", " ", "w", "i", "t", "h", "d", "r", "a", "w", "a", "l">>, <<"C", "L", "I", "E", "N", "T", " ", "R", "E", "Q", "U", "E", "S", "T">>>>,
      <<<<"M", "i", "s", "c", " ", "P", "a", "y", "m", "e", "n", "t">>, <<"G", "S", "T", " ", "C", "A", "N", "A", "D", "A">>>>,
      <<<<"F", "e", "d", " ", "G", "o", "v", "t">>, <<"C", "A", "N", "A", "D", "A">>>>,
      <<<<"G", "S", "T", " ", "r", "e", "m", "i", "t", "t", "a", "n", "c", "e">>, <<>>>>,
      <<<<"I", "N", "T", "E", "R", "A", "C", " ", "e", "-", "T", "r", "a", "n", "s", "f", "e", "r", " ", "f", "e", "e">>, <<>>>>,
      <<<<"M", "o", "n", "t", "h", "l", "y", " ", "f", "e", "e">>, <<>>>>,
      <<<<"I", "t", "e", "m", "s", " ", "o", "n", " ", "d", "e", "p", "o", "s", "i", "t", " ", "f", "e", "e">>, <<>>>>,
      <<<<"O", "n", "l", "i", "n", "e", " ", "B", "a", "n", "k", "i", "n", "g", " ", "w", "i", "r", "e", " ", "f", "e", "e">>, <<>>>>,
      <<<<"O", "n", "l", "i", "n", "e", " ", "B", "a", "n", "k", "i", "n", "g", " ", "w", "i", "r", "e", " ", "p", "a", "y", "m", "e", "n", "t">>, <<"A", "C", "M", "E">>>>,
      <<<<"B", "u", "s", "i", "n", "e", "s", "s", " ", "P", "A", "D">>, <<"T", "C", "H", " ", "C", "A", "N", "A", "D", "A">>>>,
      <<<<"B", "i", "l", "l", " ", "P", "a", "y", "m", "e", "n", "t">>, <<"P", "A", "Y", "-", "F", "I", "L", "E", " ", "F", "E", "E", "S">>>>,
      <<<<"P", "r", "o", "v", "/", "L", "o", "c", "a", "l", " ", "G", "v", "t">>, <<"B", "C">>>>,
      <<<<"P", "u", "r", "c", "h", "a", "s", "e", " ", "i", "n", "t", "e", "r", "e", "s", "t">>, <<>>>>,
      <<<<"S", "H", "E", "L", "L", " ", "-", " ", "C", "a", "l", "g", "a", "r", "y">>, <<>>>>,
      <<<<"T", "I", "M", " ", "H", "O", "R", "T", "O", "N", "S", " ", "#", "1", "2">>, <<>>>>,
      <<<<"C", "O", "M", "M", "E", "R", "C", "I", "A", "L", " ", "T", "A", "X", "E", "S">>, <<"E", "M", "P", "T", "X", " ", "1", "2", "3", "4">>>>,
      <<<<"D", "e", "p", "o", "s", "i", "t">>, <<>>>>,
      <<<<"C", "A", "S", "H", " ", "B", "A", "C", "K", " ", "R", "E", "W", "A", "R", "D">>, <<>>>>,
      <<<<"D", "i", "r", "e", "c", "t", " ", "D", "e", "p", "o", "s", "i", "t", "s", " ", "(", "P", "D", "S", ")">>, <<"P", "A", "Y", " ", "E", "M", "P", "-", "V", "E", "N", "D", "O", "R">>>>,
      <<<<"A", "u", "t", "o", " ", "I", "n", "s", "u", "r", "a", "n", "c", "e">>, <<"I", "C", "B", "C">>>>,
      <<<<"I", "n", "s", "u", "r", "a", "n", "c", "e">>, <<"C", "A", "F", "O", " ", "I", "N", "C">>>>,
      <<<<" ", "A", "c", "m", "e", " ", "S", "u", "p", "p", "l", "i", "e", "s", " ">>, <<>>>> }

\* The (CAD$, USD$) column texts of the modelled statement lines.
AmountTexts ==
    { <<<<"-", "5", "0", "0", ".", "0", "0">>, <<>>>>,
      <<<<"2", "5", "0", "0", ".", "0", "0">>, <<>>>>,
      <<<<>>, <<"1", "0", "0", ".", "0", "0">>>>,
      <<<<"0", ".", "0", "0">>, <<"-", "2", "5", ".", "5", "0">>>>,
      <<<<"0", ".", "0", "0">>, <<"1", "0", "0", ".", "0", "0">>>>,
      <<<<>>, <<"0", ".", "0", "0">>>> }

\* Texts of the modelled inputs: CSV cells, and strings of the modelled AI responses.
Sample ==
    [ account_type |-> <<"C", "h", "e", "q", "u", "i", "n", "g">>,
      account_number |-> <<"0", "7", "7", "6", "0", "-", "1", "0", "0", "1", "2", "7", "0">>,
      date |-> <<"1", "/", "5", "/", "2", "0", "2", "5">>,
      header |-> <<"A", "c", "c", "o", "u", "n", "t", " ", "T", "y", "p", "e">>,
      bad_amount |-> <<"n", "/", "a">>,
      neg |-> <<"-", "5", "0", "0", ".", "0", "0">>,
      pos |-> <<"2", "5", "0", "0", ".", "0", "0">>,
      usd |-> <<"1", "0", "0", ".", "0", "0">>,
      funds_transfer |-> <<"F", "u", "n", "d", "s", " ", "t", "r", "a", "n", "s", "f", "e", "r">>,
      misc_payment |-> <<"M", "i", "s", "c", " ", "P", "a", "y", "m", "e", "n", "t">>,
      j_d_factors |-> <<"J", " ", "D", " ", "F", "A", "C", "T", "O", "R", "S">>,
      shell_calgary |-> <<"S", "H", "E", "L", "L", " ", "-", " ", "C", "a", "l", "g", "a", "r", "y">>,
      acme |-> <<"A", "c", "m", "e">>,
      vendor |-> <<"S", "h", "e", "l", "l">>,
      notes |-> <<"F", "u", "e", "l">>,
      bad_type |-> <<"r", "e", "f", "u", "n", "d">>,
      bad_source |-> <<"c", "r", "e", "d", "i", "t", "_", "c", "a", "r", "d">>,
      high |-> <<"h", "i", "g", "h">>,
      zero |-> <<"0">> ]

-----------------------------------------------------------------------------
(* The modelled requests and model responses.                              *)

\* The most data rows of a request that combines several statement lines.
MaxRows == 2
\* The most items of a response array that combines several items.
MaxItems == 2

\* A full data row (8 fields), a row without the USD$ column (7 fields), a short row.
Row(d, a) ==
    <<Sample.account_type, Sample.account_number, Sample.date, <<>>, d[1], d[2], a[1], a[2]>>
Row7(d, cad) == <<Sample.account_type, Sample.account_number, Sample.date, <<>>, d[1], d[2], cad>>
ShortRow == <<Sample.account_type, Sample.account_number, Sample.date>>

HeaderRow == <<Sample.header>>

\* Every modelled statement line, alone in a request.
RichRows == {Row(d, a) : d \in Descriptions, a \in AmountTexts}

\* The statement lines that requests of several rows are made of.
CoreRows ==
    { Row(<<Sample.funds_transfer, <<>>>>, <<Sample.neg, <<>>>>),
      Row(<<Sample.misc_payment, Sample.j_d_factors>>, <<Sample.pos, <<>>>>),
      Row(<<Sample.shell_calgary, <<>>>>, <<<<>>, Sample.usd>>),
      Row7(<<Sample.acme, <<>>>>, Sample.bad_amount),
      ShortRow }

SeqsUpTo(S, n) == UNION {[1..k -> S] : k \in 1..n}

\* The modelled request bodies, as the rows csv.reader yields.
CsvInputs ==
    {<<>>, <<<<>>, Row7(<<Sample.acme, <<>>>>, Sample.neg)>>, <<HeaderRow>>}
    \cup {<<HeaderRow, r>> : r \in RichRows}
    \cup {<<HeaderRow>> \o s : s \in SeqsUpTo(CoreRows, MaxRows)}
    \cup {<<BareCrLine>>, <<HeaderRow, BareCrLine>>, <<<<>>, BareCrLine>>,
          <<HeaderRow, Row7(<<Sample.acme, <<>>>>, Sample.neg), BareCrLine>>}

\* The classification fields of the modelled response items.
RichItems ==
    { [x \in {} |-> PyNone],
      [type |-> PyStr(Lit.expense), category |-> PyStr(Lit.fuel),
       payment_source |-> PyStr(Lit.bank_checking), vendor_name |-> PyStr(Sample.vendor),
       notes |-> PyStr(Sample.notes), confidence |-> PyNum(99)],
      [type |-> PyStr(Lit.expense), category |-> PyStr(Lit.uncategorized), confidence |-> PyNum(5)],
      [type |-> PyStr(Lit.transfer), category |-> PyStr(Lit.fuel),
       vendor_name |-> PyStr(Sample.vendor), confidence |-> PyNum(90)],
      [type |-> PyStr(Lit.income), category |-> PyStr(Lit.income),
       payment_source |-> PyStr(Lit.e_transfer), confidence |-> PyNum(20)],
      [type |-> PyStr(Lit.owner_draw), category |-> PyStr(Lit.owner_draw), confidence |-> PyNum(100)],
      [type |-> PyStr(Lit.tax_refund), category |-> PyStr(Lit.tax_refund), confidence |-> PyNum(0)],
      [type |-> PyNone, category |-> PyNone, confidence |-> PyNone],
      [type |-> PyStr(Sample.bad_type), payment_source |-> PyStr(Sample.bad_source),
       confidence |-> PyNum(150)],
      [type |-> PyNum(1), confidence |-> PyStr(Sample.high)] }

CoreItemA ==
    [type |-> PyStr(Lit.expense), category |-> PyStr(Lit.fuel),
     payment_source |-> PyStr(Lit.e_transfer), vendor_name |-> PyStr(Sample.vendor),
     notes |-> PyStr(Sample.notes), confidence |-> PyNum(99)]
CoreItemB == [type |-> PyStr(Lit.income), notes |-> PyStr(Sample.notes), confidence |-> PyNum(20)]

\* A response item that is a JSON object with an "index" key, one without, one that is no object.
Item(index, fields) == [t |-> "dict", d |-> Upd([index |-> index], fields)]
NoIndexItem == [t |-> "dict", d |-> CoreItemA]
OtherItem == [t |-> "other"]

RichElems ==
    {Item(PyNum(0), f) : f \in RichItems}
    \cup {Item(PyStr(Sample.zero), CoreItemA), Item(PyNone, CoreItemA), OtherItem}

CoreElems ==
    {Item(PyNum(0), CoreItemA), Item(PyNum(1), CoreItemB),
     Item(PyNum(0), [x \in {} |-> PyNone]), NoIndexItem}

Array(items) == [t |-> "array", items |-> items]

\* The modelled JSON documents.
JsonValues ==
    {[t |-> "scalar"], [t |-> "object", empty |-> TRUE], [t |-> "object", empty |-> FALSE],
     Array(<<>>)}
    \cup {Array(<<e>>) : e \in RichElems \cup CoreElems}
    \cup {Array(s) : s \in UNION {[1..k -> CoreElems] : k \in 2..MaxItems}}

JsonLine(v) == [t |-> "json", v |-> v]
Fence(bare) == [t |-> "fence", bare |-> bare]
Prose == [t |-> "prose"]

\* The modelled response texts: bare documents, fenced ones, and malformed ones.
Texts ==
    {<<JsonLine(v)>> : v \in JsonValues}
    \cup {<<Fence(FALSE), JsonLine(Array(<<e>>)), Fence(TRUE)>> : e \in CoreElems}
    \cup {<<Fence(TRUE), JsonLine(Array(<<e>>))>> : e \in CoreElems}
    \cup {<<>>, <<Prose>>, <<Prose, JsonLine(Array(<<>>))>>,
          <<Fence(FALSE), JsonLine(Array(<<>>)), Fence(FALSE)>>}

NoOutcome == [kind |-> "none", text |-> <<>>]

\* What model.generate_content(prompt) followed by response.text can do.
Outcomes == {[kind |-> "raise", text |-> <<>>]} \cup {[kind |-> "text", text |-> t] : t \in Texts}

-----------------------------------------------------------------------------
(* The request handler parse_bank_csv and the lazily constructed service.  *)

\* The most parse_bank_csv requests in flight at once.
MaxRequests == 2

Requests == 1..MaxRequests

\* A request slot nobody uses.
IdleRequest == [pc |-> "idle", csv |-> <<>>, txs |-> <<>>, ai |-> NoOutcome, resp |-> NoResponse]

\* No parse_bank_csv request is being handled on its own.
BankIdle ==
    /\ pc = "idle"
    /\ csv = <<>>
    /\ raw = <<>>
    /\ txs = <<>>
    /\ ai = NoOutcome
    /\ path = "none"
    /\ resp = NoResponse
    /\ stages = <<>>

\* No concurrent request is in flight.
ConcurrentIdle == reqs = [r \in Requests |-> IdleRequest]

\* No parse_receipt call is being made.
ReceiptIdle == receipt = [pc |-> "idle"]

\* The dates rates are asked for, as day numbers.
RequestDates == {6, 7}

NoCall == [mode |-> "none"]

\* The exchange_rate_cache table is empty and no rate has been asked for.
CurrencyIdle == fx = [cache |-> {}, last |-> NoCall]

\* The most expense records, each made by one upload_receipt call.
MaxExpenses == 2

ExpenseIds == 1..MaxExpenses

\* No row; `response` is the status of the upload_receipt call, 0 before it answers.
NoExpense == [pc |-> "absent", processing_status |-> "none", is_verified |-> FALSE, response |-> 0]

ExpensesIdle == expenses = [e \in ExpenseIds |-> NoExpense]

\* The most create_card requests in progress at a time, and the most rows of the table.
MaxCreates == 2
MaxCards == 3

Creates == 1..MaxCreates
CardIds == 1..MaxCards

IdleCreate == [pc |-> "idle", response |-> 0]

\* The cards table is empty, no create_card is in progress, match_card was not called.
CardsIdle ==
    cards = [table |-> {}, creates |-> [c \in Creates |-> IdleCreate], matched |-> "none"]

Init ==
    /\ instance = "unset"
    /\ BankIdle
    /\ ConcurrentIdle
    /\ ReceiptIdle
    /\ CurrencyIdle
    /\ ExpensesIdle
    /\ CardsIdle

\* A request arrives with csv_content c.
Request(c) ==
    /\ pc = "idle"
    /\ pc' = "called"
    /\ csv' = c
    /\ UNCHANGED <<instance, raw, txs, ai, path, resp, stages, elsewhere>>

\* get_bank_service constructing again whenever the instance has no model.
GetBankServiceRetrying(constructed) == IF instance # "model" THEN constructed ELSE instance

\* get_bank_service (lines 573-577): the instance is constructed on first use; __init__
\* (lines 148-168) leaves it with a model, or without one when no key is configured or
\* the construction raises.
GetBankService(constructed) == IF instance = "unset" THEN constructed ELSE instance


\* parse_bank_csv up to the call of the model: get_bank_service, parse_csv, the empty
\* check (lines 592-601), and categorize_transactions up to generate_content (lines
\* 216-241), or the whole of it and the response when the service has no model.
Handle(constructed) ==
    /\ pc = "called"
    /\ instance' = GetBankService(constructed)
    /\ UNCHANGED <<csv, ai, elsewhere>>
    /\ IF ParseCsvRaises(csv)
       THEN /\ resp' = [status |-> HTTP_500_INTERNAL_SERVER_ERROR]
            /\ pc' = "done"
            /\ UNCHANGED <<raw, txs, path, stages>>
       ELSE /\ raw' = ParseCsv(csv)
            /\ IF raw' = <<>>
               THEN /\ resp' = [status |-> HTTP_400_BAD_REQUEST]
                    /\ pc' = "done"
                    /\ UNCHANGED <<txs, path, stages>>
               ELSE IF instance' = "no_model"
               THEN /\ txs' = RuleBasedCategorize(raw')
                    /\ path' = "rule"
                    /\ stages' = <<Stage.rule_based>>
                    /\ resp' = BuildResponse(txs')
                    /\ pc' = "done"
               ELSE /\ txs' = raw'
                    /\ stages' = <<Stage.ai_call>>
                    /\ pc' = "awaiting"
                    /\ UNCHANGED <<path, resp>>

\* generate_content returns or raises with outcome o; the rest of categorize_transactions
\* (lines 243-278) and of parse_bank_csv (lines 608-676) follows.
AiReturns(o) ==
    /\ pc = "awaiting"
    /\ ai' = o
    /\ LET r == TryAi(txs, o)
       IN  /\ txs' = IF r.raised THEN OnAiFailure(r.txs) ELSE r.txs
           /\ path' = IF r.raised THEN "rule" ELSE "ai"
           /\ stages' = stages \o StagesAfterCall(r.raised)
    /\ resp' = BuildResponse(txs')
    /\ pc' = "done"
    /\ UNCHANGED <<instance, csv, raw, elsewhere>>

\* The response has been sent; the process waits for the next request.
Return ==
    /\ pc = "done"
    /\ pc' = "idle"
    /\ csv' = <<>>
    /\ raw' = <<>>
    /\ txs' = <<>>
    /\ ai' = NoOutcome
    /\ path' = "none"
    /\ resp' = NoResponse
    /\ stages' = <<>>
    /\ UNCHANGED <<instance, elsewhere>>

Next ==
    \/ \E c \in CsvInputs : Request(c)
    \/ \E constructed \in {"model", "no_model"} : Handle(constructed)
    \/ \E o \in Outcomes : AiReturns(o)
    \/ Return

Spec == Init /\ [][Next]_vars

-----------------------------------------------------------------------------
(* Several parse_bank_csv requests in flight: each coroutine has its own    *)
(* locals (raw_transactions, categorized, the response) and they share the  *)
(* module global _bank_service_instance.  A coroutine is taken to yield to  *)
(* the others at the model call, and nowhere else (lines 591-676 have no    *)
(* other call that could suspend).                                          *)

\* lines 591-676 for one request from start to end: the response to csv_content c when
\* the service is `service` and the model call, if made, has outcome o.
ResponseTo(c, service, o) ==
    IF ParseCsvRaises(c) THEN [status |-> HTTP_500_INTERNAL_SERVER_ERROR]
    ELSE IF ParseCsv(c) = <<>> THEN [status |-> HTTP_400_BAD_REQUEST]
    ELSE IF service = "no_model" THEN BuildResponse(RuleBasedCategorize(ParseCsv(c)))
    ELSE LET r == TryAi(ParseCsv(c), o)
         IN  BuildResponse(IF r.raised THEN OnAiFailure(r.txs) ELSE r.txs)

\* The request bodies and the model outcomes of the concurrent requests.
SharedCsvs ==
    { <<HeaderRow>>,
      <<HeaderRow, Row(<<Sample.funds_transfer, <<>>>>, <<Sample.neg, <<>>>>)>>,
      <<HeaderRow, ShortRow, Row(<<Sample.shell_calgary, <<>>>>, <<<<>>, Sample.usd>>)>> }
SharedOutcomes ==
    { [kind |-> "raise", text |-> <<>>],
      [kind |-> "text", text |-> <<JsonLine(Array(<<Item(PyNum(0), CoreItemA)>>))>>],
      [kind |-> "text", text |-> <<JsonLine(Array(<<Item(PyNum(1), CoreItemB)>>))>>] }

\* A batch kept on the shared service instead of in the coroutine: a request resumes with
\* the batch of whichever request is waiting for the model.
BatchOnService(rs, r) == rs[CHOOSE q \in DOMAIN rs : rs[q].pc = "awaiting"].txs

\* lines 595, 606: raw_transactions, a local of the coroutine of request r.
LocalBatch(rs, r) == rs[r].txs

\* Request r arrives with csv_content c.
Arrive(r, c) ==
    /\ reqs[r].pc = "idle"
    /\ reqs' = [reqs EXCEPT ![r] = [IdleRequest EXCEPT !.pc = "called", !.csv = c]]
    /\ UNCHANGED <<instance, bankVars, receipt, fx, routerVars>>

\* The coroutine of request r runs from get_bank_service to the model call (lines
\* 592-606, 216-241), or to its end when it makes no model call.
Start(r, constructed) ==
    /\ reqs[r].pc = "called"
    /\ instance' = GetBankService(constructed)
    /\ LET c == reqs[r].csv
       IN  reqs' = [reqs EXCEPT ![r] =
                      IF ~ParseCsvRaises(c) /\ ParseCsv(c) # <<>> /\ instance' = "model"
                      THEN [@ EXCEPT !.pc = "awaiting", !.txs = ParseCsv(c)]
                      ELSE [@ EXCEPT !.pc = "done",
                                     !.resp = ResponseTo(c, instance', NoOutcome)]]
    /\ UNCHANGED <<bankVars, receipt, fx, routerVars>>

\* The model call of request r ends with outcome o and its coroutine runs to the end
\* (lines 243-278, 608-676).
Resume(r, o) ==
    /\ reqs[r].pc = "awaiting"
    /\ LET t == TryAi(LocalBatch(reqs, r), o)
       IN  reqs' = [reqs EXCEPT ![r] =
                      [@ EXCEPT !.pc = "done", !.ai = o,
                                !.txs = IF t.raised THEN OnAiFailure(t.txs) ELSE t.txs,
                                !.resp = BuildResponse(IF t.raised THEN OnAiFailure(t.txs)
                                                       ELSE t.txs)]]
    /\ UNCHANGED <<instance, bankVars, receipt, fx, routerVars>>

\* The response of request r has been sent.
Finish(r) ==
    /\ reqs[r].pc = "done"
    /\ reqs' = [reqs EXCEPT ![r] = IdleRequest]
    /\ UNCHANGED <<instance, bankVars, receipt, fx, routerVars>>

NextConcurrent ==
    \/ \E r \in Requests, c \in SharedCsvs : Arrive(r, c)
    \/ \E r \in Requests, constructed \in {"model", "no_model"} : Start(r, constructed)
    \/ \E r \in Requests, o \in SharedOutcomes : Resume(r, o)
    \/ \E r \in Requests : Finish(r)

SpecConcurrent == Init /\ [][NextConcurrent]_vars

-----------------------------------------------------------------------------
(* services/gemini_service.py: GeminiService.parse_receipt.  Amounts are    *)
(* in hundredths.  The model call either raises, answers text that is not   *)
(* JSON, a JSON document that is no object, or a JSON object.               *)

\* String literals of parse_receipt and texts of the modelled responses.
Rc ==
    [ canada |-> <<"c", "a", "n", "a", "d", "a">>,
      usa |-> <<"u", "s", "a">>,
      unknown |-> <<"u", "n", "k", "n", "o", "w", "n">>,
      uncategorized |-> <<"u", "n", "c", "a", "t", "e", "g", "o", "r", "i", "z", "e", "d">>,
      Canada |-> <<"C", "a", "n", "a", "d", "a">>,
      Meals_Entertainment |-> <<"M", "e", "a", "l", "s", " ", "E", "n", "t", "e", "r", "t", "a", "i", "n", "m", "e", "n", "t">>,
      five |-> <<"5">>,
      nought |-> <<"0">> ]

\* str.replace(old, new) for one-character old and new.
ReplaceChar(s, old, new) == [i \in 1..Len(s) |-> IF s[i] = old THEN new ELSE s[i]]

\* a + b as Python evaluates it for the modelled values: numbers add, strs concatenate,
\* anything else raises TypeError.
PyAdd(a, b) ==
    IF IsNum(a) /\ IsNum(b) THEN [raised |-> FALSE, v |-> PyNum(a.n + b.n)]
    ELSE IF IsStr(a) /\ IsStr(b) THEN [raised |-> FALSE, v |-> PyStr(a.s \o b.s)]
    ELSE [raised |-> TRUE, v |-> PyNone]

Raised == [raised |-> TRUE]

\* ParsedReceiptData(confidence=0.0): every other field at its default (schemas.py 152-166).
EmptyParsedReceiptData ==
    [raised |-> FALSE, jurisdiction |-> Rc.unknown, category |-> Rc.uncategorized,
     gst_amount |-> 0, hst_amount |-> 0, pst_amount |-> 0, tax_amount |-> 0, confidence |-> 0]

\* lines 199-230 for a response that is the JSON object `data`.
ReceiptFromData(data) ==
    LET j == Get(data, "jurisdiction", PyStr(Rc.unknown))
        c == Get(data, "category", PyStr(Rc.uncategorized))
    IN  IF ~IsStr(j) THEN Raised
        ELSE LET jurisdiction == Lower(j.s)
                 isCanada == jurisdiction = Rc.canada
                 gst_amount == IF isCanada THEN Get(data, "gst_amount", PyNum(0)) ELSE PyNum(0)
                 hst_amount == IF isCanada THEN Get(data, "hst_amount", PyNum(0)) ELSE PyNum(0)
                 pst_amount == IF isCanada THEN Get(data, "pst_amount", PyNum(0)) ELSE PyNum(0)
                 gh == PyAdd(gst_amount, hst_amount)
                 tax_amount == PyAdd(gh.v, pst_amount)
                 confidence == Get(data, "confidence", PyNum(DefaultConfidence))
             IN  IF gh.raised \/ tax_amount.raised THEN Raised
                 ELSE IF ~IsStr(c) THEN Raised
                 ELSE IF ~(/\ ValidFloat(gst_amount) /\ ValidFloat(hst_amount)
                           /\ ValidFloat(pst_amount) /\ ValidFloat(tax_amount.v)
                           /\ ValidFloat(confidence))
                 THEN Raised
                 ELSE [raised |-> FALSE,
                       jurisdiction |-> jurisdiction,
                       category |-> ReplaceChar(Lower(c.s), " ", "_"),
                       gst_amount |-> AsFloat(gst_amount),
                       hst_amount |-> AsFloat(hst_amount),
                       pst_amount |-> AsFloat(pst_amount),
                       tax_amount |-> AsFloat(tax_amount.v),
                       confidence |-> AsFloat(confidence)]

\* parse_receipt(ocr_text) (lines 163-242): what it returns, or that it raises.
ParseReceipt(service, outcome) ==
    IF service = "no_model" THEN EmptyParsedReceiptData
    ELSE IF outcome.kind = "raise" THEN Raised
    ELSE IF outcome.kind = "not_json" THEN EmptyParsedReceiptData
    ELSE IF outcome.kind = "not_object" THEN Raised
    ELSE ReceiptFromData(outcome.data)

\* The values a response gives, or does not give, for a tax amount, for the jurisdiction
\* and for the category.
TaxValues == {PyNum(0), PyNum(500), PyNum(1300), PyStr(Rc.five), PyStr(Rc.nought), PyNone}
JurisdictionValues == {PyStr(Rc.canada), PyStr(Rc.Canada), PyStr(Rc.usa), PyStr(Rc.unknown), PyNone}
CategoryValues == {PyStr(Rc.Meals_Entertainment), PyNone}

\* The dicts with some of the keys `keys`, each with one of the values of `values`.
DictsOver(keys, values) == UNION {[ks -> values] : ks \in SUBSET keys}

\* The modelled JSON objects: dicts joined key by key.
ReceiptObjects ==
    { Upd(Upd(t, j), c) :
        t \in DictsOver({"gst_amount", "hst_amount", "pst_amount"}, TaxValues),
        j \in DictsOver({"jurisdiction"}, JurisdictionValues),
        c \in DictsOver({"category"}, CategoryValues) }

ReceiptOutcomes ==
    {[kind |-> "raise"], [kind |-> "not_json"], [kind |-> "not_object"]}
    \cup {[kind |-> "json", data |-> d] : d \in ReceiptObjects}

\* A parse_receipt call is about to run, for some service and some model outcome.
InitReceipt ==
    /\ instance = "unset"
    /\ BankIdle
    /\ ConcurrentIdle
    /\ CurrencyIdle
    /\ ExpensesIdle
    /\ CardsIdle
    /\ receipt \in {[pc |-> "called", service |-> s, outcome |-> o] :
                      s \in {"model", "no_model"}, o \in ReceiptOutcomes}

\* The call runs to its end.
ParseReceiptCall ==
    /\ receipt.pc = "called"
    /\ receipt' = [pc |-> "done", service |-> receipt.service, outcome |-> receipt.outcome,
                   result |-> ParseReceipt(receipt.service, receipt.outcome)]
    /\ UNCHANGED <<instance, bankVars, reqs, fx, routerVars>>

NextReceipt == ParseReceiptCall

SpecReceipt == InitReceipt /\ [][NextReceipt]_vars

-----------------------------------------------------------------------------
(* services/currency_service.py: CurrencyService.  Rates are in hundredths  *)
(* (1.35 is 135) and dates are day numbers.  A call is given what the Bank   *)
(* of Canada API does for each of the days it may ask about: window[k] is    *)
(* the outcome of the request for the day k days before the date.           *)

\* range(6), line 71: the requested date and the five days before it.
LookBack == 6

\* FALLBACK_RATE, line 22.
FallbackRate == 135

\* What one request can do: answer with an observation whose "v" is a positive rate or 0,
\* answer 200 without observations, answer another status, or raise (network error,
\* timeout, a body that is not the expected JSON).
Published(v) == [k |-> "rate", v |-> v]
NoObservation == [k |-> "empty"]
ApiEvents == {Published(136), Published(140), Published(0), [k |-> "status"], [k |-> "raise"]}

\* The most consecutive days of a window on which the API does anything but answer
\* "no observation".
MaxEventDays == 2

\* The answers to the requests for date - 0 .. date - 5: `quiet` days without an
\* observation, then the days of `events`, then days without an observation again.
WindowOf(quiet, events) ==
    [d \in 0..(LookBack - 1) |->
        IF d >= quiet /\ d < quiet + MaxEventDays THEN events[d - quiet] ELSE NoObservation]

Windows ==
    {WindowOf(quiet, events) :
        quiet \in 0..(LookBack - 1),
        events \in [0..(MaxEventDays - 1) -> ApiEvents \cup {NoObservation}]}

\* _fetch_rate_from_boc continuing the look-back at every failed request, instead of
\* returning None from the except clause.
RECURSIVE FetchSkippingFailures(_, _)
FetchSkippingFailures(window, days_back) ==
    IF days_back = LookBack THEN [rate |-> PyNone, requests |-> days_back]
    ELSE IF window[days_back].k = "rate" /\ window[days_back].v > 0
    THEN [rate |-> PyNum(window[days_back].v), requests |-> days_back + 1]
    ELSE FetchSkippingFailures(window, days_back + 1)

\* _fetch_rate_from_boc (lines 65-104) from iteration days_back of the loop on: the rate
\* or None, and the number of requests made.
RECURSIVE FetchRateFromBoc(_, _)
FetchRateFromBoc(window, days_back) ==
    IF days_back = LookBack THEN [rate |-> PyNone, requests |-> days_back]
    ELSE IF window[days_back].k = "raise"
    THEN [rate |-> PyNone, requests |-> days_back + 1]
    ELSE IF window[days_back].k = "rate" /\ window[days_back].v > 0
    THEN [rate |-> PyNum(window[days_back].v), requests |-> days_back + 1]
    ELSE FetchRateFromBoc(window, days_back + 1)

\* rate or self.FALLBACK_RATE (lines 53, 168)
RateOrFallback(rate) == IF Truthy(rate) THEN rate.n ELSE FallbackRate

\* A row of exchange_rate_cache (models.py 132-139), and the rows of a date.
CacheEntry(date, rate) == [date |-> date, usd_to_cad |-> rate]
EntriesFor(cache, date) == {e \in cache : e.date = date}

\* _get_cached_rate (lines 106-123): the cached rate, or None when there is no entry or
\* the query raises.
\* scalar_one_or_none raises when the query finds more than one row.
GetCachedRate(cache, date, query_ok) ==
    IF query_ok /\ Cardinality(EntriesFor(cache, date)) = 1
    THEN (CHOOSE e \in EntriesFor(cache, date) : TRUE).usd_to_cad
    ELSE PyNone

\* _cache_rate writing the rate over the entry the date has.
CacheRateOverwriting(cache, date, rate, query_ok, commit_ok) ==
    IF commit_ok THEN (cache \ EntriesFor(cache, date)) \cup {CacheEntry(date, rate)} ELSE cache

\* _cache_rate (lines 125-147): the table afterwards.  The insert of a second entry for a
\* date violates the unique constraint on ExchangeRateCache.date (models.py 137) and the
\* exception is caught, as is any other failure of the commit.
CacheRate(cache, date, rate, query_ok, commit_ok) ==
    IF Truthy(GetCachedRate(cache, date, query_ok)) THEN cache
    ELSE IF EntriesFor(cache, date) # {} \/ ~commit_ok THEN cache
    ELSE cache \cup {CacheEntry(date, rate)}

\* get_exchange_rate(date, db) (lines 24-53) with a database session.
GetExchangeRate(date, window, query1_ok, query2_ok, commit_ok) ==
    /\ fx.last = NoCall
    /\ LET cached_rate == GetCachedRate(fx.cache, date, query1_ok)
           fetched == FetchRateFromBoc(window, 0)
       IN  IF Truthy(cached_rate)
           THEN fx' = [fx EXCEPT !.last = [mode |-> "db", date |-> date, window |-> window,
                                           query_ok |-> query1_ok, requests |-> 0,
                                           result |-> cached_rate.n]]
           ELSE fx' = [cache |-> IF Truthy(fetched.rate)
                                 THEN CacheRate(fx.cache, date, fetched.rate, query2_ok, commit_ok)
                                 ELSE fx.cache,
                       last |-> [mode |-> "db", date |-> date, window |-> window,
                                 query_ok |-> query1_ok, requests |-> fetched.requests,
                                 result |-> RateOrFallback(fetched.rate)]]
    /\ UNCHANGED <<instance, bankVars, reqs, receipt, routerVars>>

\* get_exchange_rate_simple(date) (lines 162-168), and get_exchange_rate without a session.
GetExchangeRateSimple(date, window) ==
    /\ fx.last = NoCall
    /\ LET fetched == FetchRateFromBoc(window, 0)
       IN  fx' = [fx EXCEPT !.last = [mode |-> "simple", date |-> date, window |-> window,
                                      query_ok |-> TRUE, requests |-> fetched.requests,
                                      result |-> RateOrFallback(fetched.rate)]]
    /\ UNCHANGED <<instance, bankVars, reqs, receipt, routerVars>>

\* The caller has used the rate; the next call can be made.
RateUsed ==
    /\ fx.last # NoCall
    /\ fx' = [fx EXCEPT !.last = NoCall]
    /\ UNCHANGED <<instance, bankVars, reqs, receipt, routerVars>>

\* The dates a call can be made for: none while the caller still holds the last rate.
CallDates == IF fx.last = NoCall THEN RequestDates ELSE {}

NextCurrency ==
    \/ \E date \in CallDates, window \in Windows, q1, q2, c \in BOOLEAN :
          GetExchangeRate(date, window, q1, q2, c)
    \/ \E date \in CallDates, window \in Windows : GetExchangeRateSimple(date, window)
    \/ RateUsed

SpecCurrency == Init /\ [][NextCurrency]_vars

-----------------------------------------------------------------------------
(* routers/expenses.py: upload_receipt and the handlers that verify.       *)
(*                                                                         *)
(* A row of the expenses table is committed with processing_status         *)
(* "processing" before the pipeline runs (lines 129-135), so the other     *)
(* handlers can select it while upload_receipt awaits its services.        *)

HTTP_201_CREATED == 201

\* upload_receipt up to the first commit (lines 94-135): a file of a wrong type or too
\* large is refused with 400 and no row is made.
UploadReceipt(e, valid) ==
    /\ expenses[e].pc = "absent"
    /\ expenses' = [expenses EXCEPT ![e] =
          IF valid
          THEN [pc |-> "pipeline", processing_status |-> "processing",
                is_verified |-> FALSE, response |-> 0]
          ELSE [@ EXCEPT !.response = HTTP_400_BAD_REQUEST]]
    /\ UNCHANGED <<instance, bankVars, reqs, receipt, fx, cards>>

\* The ways the pipeline of lines 137-232 ends: OCR finds no text, a step raises, or
\* every step returns.
PipelineOutcomes == {"no_text", "raised", "success"}

\* The rest of upload_receipt (lines 137-242).  commit_ok: the commit of line 154 or 227
\* succeeds; recover_ok: the commit of the except block (line 238) succeeds; orm_writes:
\* the UPDATE of line 227 includes is_verified, which the handler assigns the value the
\* object already has (line 225).  A failed commit in the try block is an exception like
\* any other and is handled by the except block.
UploadReceiptEnds(e, outcome, commit_ok, recover_ok, orm_writes) ==
    /\ expenses[e].pc = "pipeline"
    /\ LET row == expenses[e]
           to_except == outcome = "raised" \/ ~commit_ok
       IN  expenses' = [expenses EXCEPT ![e] =
              IF to_except
              THEN [pc |-> "finished",
                    processing_status |-> IF recover_ok THEN "error" ELSE row.processing_status,
                    is_verified |-> row.is_verified,
                    response |-> HTTP_500_INTERNAL_SERVER_ERROR]
              ELSE IF outcome = "no_text"
              THEN [pc |-> "finished", processing_status |-> "error",
                    is_verified |-> row.is_verified, response |-> HTTP_200_OK]
              ELSE [pc |-> "finished", processing_status |-> "completed",
                    is_verified |-> IF orm_writes THEN FALSE ELSE row.is_verified,
                    response |-> HTTP_200_OK]]
    /\ UNCHANGED <<instance, bankVars, reqs, receipt, fx, cards>>

\* verify_expense (lines 346-370) for a row that exists.
VerifyExpense(e) ==
    /\ expenses[e].pc # "absent"
    /\ expenses' = [expenses EXCEPT ![e].is_verified = TRUE]
    /\ UNCHANGED <<instance, bankVars, reqs, receipt, fx, cards>>

\* update_expense (lines 270-342) for a row that exists: of the fields modelled, only
\* is_verified is written, and only with True (lines 336-337).
UpdateExpense(e, is_verified) ==
    /\ expenses[e].pc # "absent"
    /\ expenses' = [expenses EXCEPT ![e].is_verified = IF is_verified THEN TRUE ELSE @]
    /\ UNCHANGED <<instance, bankVars, reqs, receipt, fx, cards>>

NextExpenses ==
    \/ \E e \in ExpenseIds, valid \in BOOLEAN : UploadReceipt(e, valid)
    \/ \E e \in ExpenseIds, outcome \in PipelineOutcomes, commit_ok, recover_ok, orm_writes \in BOOLEAN :
          UploadReceiptEnds(e, outcome, commit_ok, recover_ok, orm_writes)
    \/ \E e \in ExpenseIds : VerifyExpense(e)
    \/ \E e \in ExpenseIds, is_verified \in BOOLEAN : UpdateExpense(e, is_verified)

SpecExpenses == Init /\ [][NextExpenses]_vars

-----------------------------------------------------------------------------
(* routers/cards.py: create_card, delete_card and match_card.              *)
(*                                                                         *)
(* The cards table has a primary key on id and no other constraint         *)
(* (models.py 62-71).  create_card awaits the database between its select  *)
(* and its insert, so other requests run in between.                       *)

Users == {"u1", "u2"}
LastFours == {"1234", "9999"}

\* The rows of the table for a user and last four digits.
CardsOf(table, user_id, last_four) ==
    {card \in table : card.user_id = user_id /\ card.last_four = last_four}

\* result.scalar_one_or_none(): the row, None, or MultipleResultsFound raised.
ScalarOneOrNone(rows) ==
    IF rows = {} THEN "none" ELSE IF Cardinality(rows) = 1 THEN "one" ELSE "raises"

\* db.add(new_card); await db.commit() (lines 54-62)
InsertCard(table, id, user_id, last_four) ==
    table \cup {[id |-> id, user_id |-> user_id, last_four |-> last_four]}

\* create_card up to the answer of its select (lines 33-52).
CreateCardSelects(c, user_id, last_four) ==
    /\ cards.creates[c].pc = "idle"
    /\ LET existing == ScalarOneOrNone(CardsOf(cards.table, user_id, last_four))
       IN  cards' = [cards EXCEPT !.creates[c] =
              IF existing = "none"
              THEN [pc |-> "selected", response |-> 0, user_id |-> user_id, last_four |-> last_four]
              ELSE [pc |-> "done",
                    response |-> IF existing = "one" THEN HTTP_400_BAD_REQUEST
                                 ELSE HTTP_500_INTERNAL_SERVER_ERROR]]
    /\ UNCHANGED <<instance, bankVars, reqs, receipt, fx, expenses>>

\* create_card from the insert on (lines 54-65); the new row gets an id no row has.
CreateCardInserts(c) ==
    /\ cards.creates[c].pc = "selected"
    /\ \E id \in CardIds :
          /\ \A card \in cards.table : card.id # id
          /\ \A other \in CardIds : other < id => \E card \in cards.table : card.id = other
          /\ cards' = [cards EXCEPT
                !.table = InsertCard(@, id, cards.creates[c].user_id, cards.creates[c].last_four),
                !.creates[c] = [pc |-> "done", response |-> HTTP_201_CREATED]]
    /\ UNCHANGED <<instance, bankVars, reqs, receipt, fx, expenses>>

\* The answer of create_card has been sent.
CreateCardReturns(c) ==
    /\ cards.creates[c].pc = "done"
    /\ cards' = [cards EXCEPT !.creates[c] = IdleCreate]
    /\ UNCHANGED <<instance, bankVars, reqs, receipt, fx, expenses>>

\* delete_card (lines 93-114) for a card of the user.
DeleteCard(id, user_id) ==
    /\ \E card \in cards.table :
          /\ card.id = id /\ card.user_id = user_id
          /\ cards' = [cards EXCEPT !.table = @ \ {card}]
    /\ UNCHANGED <<instance, bankVars, reqs, receipt, fx, expenses>>

\* match_card (lines 117-139) with a non-empty last_four: "card" when a row is found,
\* "unknown" when none is, "raises" when scalar_one_or_none raises.
MatchCard(user_id, last_four) ==
    /\ cards' = [cards EXCEPT !.matched =
          LET card == ScalarOneOrNone(CardsOf(cards.table, user_id, last_four))
          IN  IF card = "one" THEN "card" ELSE IF card = "none" THEN "unknown" ELSE "raises"]
    /\ UNCHANGED <<instance, bankVars, reqs, receipt, fx, expenses>>

NextCards ==
    \/ \E c \in Creates, user_id \in Users, last_four \in LastFours :
          CreateCardSelects(c, user_id, last_four)
    \/ \E c \in Creates : CreateCardInserts(c)
    \/ \E c \in Creates : CreateCardReturns(c)
    \/ \E id \in CardIds, user_id \in Users : DeleteCard(id, user_id)
    \/ \E user_id \in Users, last_four \in LastFours : MatchCard(user_id, last_four)

SpecCards == Init /\ [][NextCards]_vars

-----------------------------------------------------------------------------
(* Vocabulary of the properties below.                                     *)

\* The handler has finished a request whose batch was classified.
Classified == pc = "done" /\ path # "none"

\* The batch was classified by the AI path: merge, then validator.
ByAi == pc = "done" /\ path = "ai"

\* The batch was classified by the rule-based classifier (no model, or a fallback).
ByRule == pc = "done" /\ path = "rule"

\* The items of the parsed model response (meaningful when ByAi).
AiItems == ItemsOf(StripFences(ai.text)[1].v)

\* The transactions as the merge loop left them, before the validator ran (when ByAi).
MergedByAi == Merge(raw, AiItems)

\* The type the response gave for record i: PyNone when it gave none (when ByAi).
AiAssignedType(i) == Get(CatMapGet(AiItems, raw[i].index), "type", PyNone)

\* `kw` occurs in the lower-cased primary or secondary description of tx.
InEither(tx, kw) == Contains(Desc1(tx), kw) \/ Contains(Desc2(tx), kw)

Records == 1..Len(txs)

-----------------------------------------------------------------------------
(* C1-C10.                                                                 *)

\* C1: when the model call raises, categorize_transactions returns exactly what
\* _rule_based_categorize returns on the same normalized records, field for field.
C1_FallbackIsRuleBased ==
    (pc = "done" /\ ai.kind = "raise") => txs = RuleBasedCategorize(raw)

\* C1 witness: a raised call on a batch of two records that the rules classify differently.
C1_Witness ==
    /\ pc = "done" /\ ai.kind = "raise" /\ Len(txs) = 2
    /\ txs[1].type = PyStr(Lit.transfer) /\ txs[2].type = PyStr(Lit.income)

\* C2: the fallback is all-or-nothing per batch: either every record carries the
\* AI-merged-then-validated classification, or every record carries the rule-based
\* classification of the normalized record (confidence 0.7, no field left from the response).
C2_AllOrNothing ==
    Classified =>
        \/ /\ path = "ai"
           /\ \A i \in Records :
                txs[i] = PostAiOne(MergeOne(raw[i], CatMapGet(AiItems, raw[i].index)))
        \/ /\ path = "rule"
           /\ \A i \in Records :
                txs[i] = RuleBasedOne(raw[i]) /\ txs[i].confidence = PyNum(RuleConfidence)

\* C2 witness: a response array whose first item is well formed and matches a record and
\* whose second item has no index key; the batch of two fell back to the rules.
C2_Witness ==
    /\ ByRule /\ Len(txs) = 2 /\ ai.kind = "text" /\ JsonOk(ai.text)
    /\ ai.text[1].v.t = "array" /\ Len(ai.text[1].v.items) = 2
    /\ ai.text[1].v.items[1] = Item(PyNum(0), CoreItemA)
    /\ ai.text[1].v.items[2] = NoIndexItem

\* C3: _post_ai_validation is idempotent: applied to the records it has produced from any
\* AI-merged records, it returns them unchanged.
C3_ValidatorIdempotent == ByAi => PostAiValidation(txs) = txs

\* C3 witness: an AI-path batch in which the validator overrode the AI's classification.
C3_Witness == ByAi /\ txs # MergedByAi

\* C4 (as claimed): whenever at least one row survives normalization, the response is
\* successful and every record has a non-null type, category, payment_source and confidence.
C4_AlwaysComplete ==
    (pc = "done" /\ raw # <<>>) =>
        /\ resp.status = HTTP_200_OK
        /\ \A i \in 1..Len(resp.transactions) :
             /\ ~IsNone(resp.transactions[i].type)
             /\ ~IsNone(resp.transactions[i].category)
             /\ ~IsNone(resp.transactions[i].payment_source)
             /\ ~IsNone(resp.transactions[i].confidence)

\* C5 (as claimed): every returned record has a type among the five types, a payment source
\* among the two sources and a confidence within [0, 1].
C5_ValuesInRange ==
    (pc = "done" /\ resp.status = HTTP_200_OK) =>
        \A i \in 1..Len(resp.transactions) :
            /\ resp.transactions[i].type \in
                 {PyStr(Lit.expense), PyStr(Lit.income), PyStr(Lit.transfer),
                  PyStr(Lit.owner_draw), PyStr(Lit.tax_refund)}
            /\ resp.transactions[i].payment_source \in
                 {PyStr(Lit.bank_checking), PyStr(Lit.e_transfer)}
            /\ resp.transactions[i].confidence.n \in 0..100

EarlierTransferPattern(tx) ==
    \/ InEither(tx, Kw.funds_transfer)
    \/ Contains(Desc1(tx), Kw.payment_thank_you)
    \/ Contains(Desc1(tx), Kw.paiement_merci)
    \/ Contains(Desc2(tx), Kw.payment_thank_you)
    \/ Contains(Desc1(tx), Kw.online_banking_transfer)
    \/ /\ Contains(Desc1(tx), Kw.credit_memo)
       /\ \/ Contains(Desc2(tx), Kw.exchange)
          \/ Contains(Desc2(tx), Kw.transfer)
          \/ Contains(Desc2(tx), Kw.client_request)

FuelBrand(tx) == AnyIn(FuelKeywords, Desc1(tx), Desc2(tx))

\* C7 (as claimed): a record matching both "funds transfer" and a fuel brand ends with type
\* transfer and never with category fuel, on both paths.
C7_TransferNeverFuel ==
    Classified => \A i \in Records :
        (InEither(raw[i], Kw.funds_transfer) /\ FuelBrand(raw[i]))
            => txs[i].type = PyStr(Lit.transfer) /\ txs[i].category # PyStr(Lit.fuel)

\* C7 (amended): such a record ends with type transfer on both paths; its category is fuel
\* only on the AI path, when the AI itself assigned type transfer with category fuel (the
\* validator leaves a record whose type is already transfer untouched).
C7_TransferBeforeFuel ==
    Classified => \A i \in Records :
        (InEither(raw[i], Kw.funds_transfer) /\ FuelBrand(raw[i]))
            => /\ txs[i].type = PyStr(Lit.transfer)
               /\ txs[i].category = PyStr(Lit.fuel)
                    => /\ path = "ai"
                       /\ MergedByAi[i].type = PyStr(Lit.transfer)
                       /\ MergedByAi[i].category = PyStr(Lit.fuel)

\* C7 witness: the AI said expense/fuel for a funds transfer naming a fuel brand, with a
\* negative amount, and the record ended as a transfer that is not fuel.
C7_Witness ==
    /\ ByAi /\ Len(txs) = 1
    /\ InEither(raw[1], Kw.funds_transfer) /\ FuelBrand(raw[1])
    /\ EffectiveAmount(raw[1]) < 0
    /\ MergedByAi[1].type = PyStr(Lit.expense) /\ MergedByAi[1].category = PyStr(Lit.fuel)
    /\ txs[1].type = PyStr(Lit.transfer) /\ txs[1].category = PyStr(Lit.transfer)

\* C8 (as claimed): on every path a record with "funds transfer" in a description ends with
\* type transfer, category transfer and vendor_name "Internal Transfer".
C8_FundsTransferFields ==
    Classified => \A i \in Records :
        InEither(raw[i], Kw.funds_transfer)
            => /\ txs[i].type = PyStr(Lit.transfer)
               /\ txs[i].category = PyStr(Lit.transfer)
               /\ txs[i].vendor_name = PyStr(Lit.v_internal_transfer)

\* C8 (amended): such a record ends with type transfer on every path; category transfer and
\* vendor "Internal Transfer" follow on the rule-based path, and on the AI path whenever the
\* AI's own type was not already transfer (else the AI's category and vendor are kept).
C8_FundsTransferType ==
    Classified => \A i \in Records :
        InEither(raw[i], Kw.funds_transfer)
            => /\ txs[i].type = PyStr(Lit.transfer)
               /\ (path = "rule" \/ MergedByAi[i].type # PyStr(Lit.transfer))
                    => /\ txs[i].category = PyStr(Lit.transfer)
                       /\ txs[i].vendor_name = PyStr(Lit.v_internal_transfer)
               /\ (path = "ai" /\ MergedByAi[i].type = PyStr(Lit.transfer))
                    => /\ txs[i].category = MergedByAi[i].category
                       /\ txs[i].vendor_name = MergedByAi[i].vendor_name

\* C8 witness: the spec's end-to-end row (Funds transfer, -500.00) classified by the rules.
C8_Witness ==
    /\ ByRule /\ Len(txs) = 1
    /\ raw[1].description1 = Sample.funds_transfer /\ raw[1].amount_cad = PyNum(-50000)
    /\ txs[1].type = PyStr(Lit.transfer) /\ txs[1].vendor_name = PyStr(Lit.v_internal_transfer)

\* A forced pattern of steps 1-2 of the rule-based classifier matches tx (lines 400-452).
ForcedPattern(tx) ==
    LET desc1 == Desc1(tx)
        desc2 == Desc2(tx)
    IN  \/ InEither(tx, Kw.funds_transfer)
        \/ Contains(desc1, Kw.payment_thank_you) \/ Contains(desc1, Kw.paiement_merci)
        \/ Contains(desc1, Kw.online_banking_transfer)
        \/ Contains(desc1, Kw.cash_withdrawal) \/ Contains(desc1, Kw.atm_withdrawal)
        \/ Contains(desc1, Kw.debit_memo) /\ (Contains(desc2, Kw.owner) \/ Contains(desc2, Kw.draw))
        \/ /\ (Contains(desc1, Kw.e_transfer) \/ Contains(desc1, Kw.autodeposit))
           /\ \E name \in OwnerNames : Contains(desc2, name)
        \/ /\ Contains(desc1, Kw.credit_memo)
           /\ \/ Contains(desc2, Kw.exchange)
              \/ Contains(desc2, Kw.transfer)
              \/ Contains(desc2, Kw.client_request)
        \/ /\ EffectiveAmount(tx) > 0
           /\ (AnyIn(TaxKeywords, desc1, desc2) \/ InEither(tx, Kw.fed_govt))

\* C9 (as claimed): for every record that matches a forced pattern and every AI-assigned
\* type, the type after the validator is the type the rule-based classifier assigns.
C9_ValidatorAgreesWithRules ==
    ByAi => \A i \in Records :
        ForcedPattern(raw[i]) => txs[i].type = RuleBasedOne(raw[i]).type

\* C10 (as claimed): the rule-based classifier gives type transfer to any record with
\* "payment - thank you" or "paiement - merci" in either description and no "funds transfer".
C10_CardPaymentEitherField ==
    ByRule => \A i \in Records :
        (/\ InEither(raw[i], Kw.payment_thank_you) \/ InEither(raw[i], Kw.paiement_merci)
         /\ ~InEither(raw[i], Kw.funds_transfer))
            => txs[i].type = PyStr(Lit.transfer)

-----------------------------------------------------------------------------
(* C11-C20.                                                                *)

\* effectiveAmount as the data model defines it: the primary amount when it is present
\* (zero included), else the secondary amount when it is present, else 0.
NullishAmount(tx) ==
    IF ~IsNone(tx.amount_cad) THEN tx.amount_cad.n
    ELSE IF ~IsNone(tx.amount_usd) THEN tx.amount_usd.n
    ELSE 0

\* tx matches one of the forced patterns the rule-based classifier tests ahead of the tax
\* keywords (lines 400-440).
RuleForcedPattern(tx) ==
    \/ InEither(tx, Kw.funds_transfer)
    \/ Contains(Desc1(tx), Kw.payment_thank_you) \/ Contains(Desc1(tx), Kw.paiement_merci)
    \/ Contains(Desc1(tx), Kw.online_banking_transfer)
    \/ Contains(Desc1(tx), Kw.cash_withdrawal) \/ Contains(Desc1(tx), Kw.atm_withdrawal)
    \/ Contains(Desc1(tx), Kw.debit_memo)
         /\ (Contains(Desc2(tx), Kw.owner) \/ Contains(Desc2(tx), Kw.draw))
    \/ (Contains(Desc1(tx), Kw.e_transfer) \/ Contains(Desc1(tx), Kw.autodeposit))
         /\ (\E name \in OwnerNames : Contains(Desc2(tx), name))
    \/ Contains(Desc1(tx), Kw.credit_memo)
         /\ (\/ Contains(Desc2(tx), Kw.exchange)
             \/ Contains(Desc2(tx), Kw.transfer)
             \/ Contains(Desc2(tx), Kw.client_request))

\* tx carries one of the tax keywords, "fed govt" included.
TaxLabelled(tx) == AnyIn(TaxKeywords \cup {Kw.fed_govt}, Desc1(tx), Desc2(tx))

\* C11: in a batch classified by the rule-based classifier, a record that matches no forced
\* pattern and carries a tax keyword has type tax_refund exactly when its effective amount
\* (primary if present, else secondary, else 0) is positive, and has type expense when
\* that amount is negative.
C11_TaxRefundIffPositive ==
    ByRule =>
        \A i \in Records :
            (~RuleForcedPattern(txs[i]) /\ TaxLabelled(txs[i])) =>
                /\ (txs[i].type = PyStr(Lit.tax_refund)) <=> (NullishAmount(txs[i]) > 0)
                /\ (NullishAmount(txs[i]) < 0) => (txs[i].type = PyStr(Lit.expense))

\* The sum of |effectiveAmount| over the records of `transactions` whose type is in `types`.
RECURSIVE SumAbsNullish(_, _)
SumAbsNullish(transactions, types) ==
    IF transactions = <<>> THEN 0
    ELSE (IF \E t \in types : Head(transactions).type = PyStr(t)
          THEN Abs(NullishAmount(Head(transactions))) ELSE 0)
         + SumAbsNullish(Tail(transactions), types)

\* The buckets of the summary: the types each total adds up.
Buckets == {{Lit.income}, {Lit.expense, Lit.owner_draw}, {Lit.transfer}, {Lit.tax_refund}}

\* C12: in every successful response the four totals are the sums of |effectiveAmount| over
\* the records of type income, expense or owner_draw, transfer, and tax_refund, and every
\* record falls in exactly one of the four buckets.
C12_TotalsPerBucket ==
    (Classified /\ resp.status = HTTP_200_OK) =>
        /\ resp.summary.total_income = SumAbsNullish(resp.transactions, {Lit.income})
        /\ resp.summary.total_expenses
             = SumAbsNullish(resp.transactions, {Lit.expense, Lit.owner_draw})
        /\ resp.summary.total_transfers = SumAbsNullish(resp.transactions, {Lit.transfer})
        /\ resp.summary.total_tax_refunds = SumAbsNullish(resp.transactions, {Lit.tax_refund})
        /\ \A i \in 1..Len(resp.transactions) :
              Cardinality({b \in Buckets : \E t \in b : resp.transactions[i].type = PyStr(t)}) = 1

\* The per-type record counts the summary carries (lines 654-657).
SummaryCounts ==
    resp.summary.expense_count + resp.summary.income_count
        + resp.summary.transfer_count + resp.summary.tax_refund_count

\* C13: in every successful response the per-type counts of the summary add up to
\* total_transactions.
C13_CountsAddUp ==
    (Classified /\ resp.status = HTTP_200_OK) => SummaryCounts = resp.summary.total_transactions

\* Some record of the batch has a value in the primary (CAD$), the secondary (USD$) column.
PrimaryPopulated == \E i \in 1..Len(raw) : ~IsNone(raw[i].amount_cad)
SecondaryPopulated == \E i \in 1..Len(raw) : ~IsNone(raw[i].amount_usd)

\* Every record of the batch has a value in the given column and none in the other.
OnlySecondary == \A i \in 1..Len(raw) : IsNone(raw[i].amount_cad) /\ ~IsNone(raw[i].amount_usd)
OnlyPrimary == \A i \in 1..Len(raw) : ~IsNone(raw[i].amount_cad) /\ IsNone(raw[i].amount_usd)

\* C14: in every successful response, a batch whose records all have only the secondary
\* amount is reported as USD, one whose records all have only the primary amount as CAD,
\* and MIXED is reported only when both columns are populated somewhere in the batch.
C14_CurrencyByPopulatedColumn ==
    (Classified /\ resp.status = HTTP_200_OK) =>
        /\ OnlySecondary => resp.summary.account_currency = "USD"
        /\ OnlyPrimary => resp.summary.account_currency = "CAD"
        /\ (resp.summary.account_currency = "MIXED") => (PrimaryPopulated /\ SecondaryPopulated)

\* C15: for every record of a classified batch, the amount the classifier, the validator
\* and the aggregator compute for it is the primary amount when that is present (zero
\* included), else the secondary amount when that is present, else 0.
C15_PrimaryZeroIsAnAmount ==
    Classified => \A i \in Records : EffectiveAmount(txs[i]) = NullishAmount(txs[i])

\* The 0-based positions, among the data lines of the request, of the lines that have the
\* minimum number of fields.
KeptPositions == {k \in 0..(Len(csv) - 2) : Len(csv[k + 2]) >= MinFields}

\* The fields of a record the normalizer sets and the response repeats.
SameRecord(a, b) ==
    /\ a.index = b.index
    /\ a.transaction_date = b.transaction_date
    /\ a.description1 = b.description1
    /\ a.description2 = b.description2
    /\ a.amount_cad = b.amount_cad
    /\ a.amount_usd = b.amount_usd

\* C16: in every successful response the transactions are the normalized records, one for
\* each data line with enough fields and in the order of the lines; each has the 0-based
\* position of its line as index, so no two share an index, and the categorized dicts and
\* the response carry the index, date, descriptions and amounts the normalizer set,
\* whatever the model answered.
C16_IndexStable ==
    (Classified /\ resp.status = HTTP_200_OK) =>
        /\ Len(raw) = Cardinality(KeptPositions)
        /\ Len(txs) = Len(raw) /\ Len(resp.transactions) = Len(raw)
        /\ \A i \in 1..Len(raw) :
              /\ raw[i].index \in KeptPositions
              /\ raw[i].description1 = Strip(csv[raw[i].index + 2][5])
              /\ SameRecord(txs[i], raw[i])
              /\ SameRecord(resp.transactions[i], raw[i])
        /\ \A i, j \in 1..Len(raw) : i < j => raw[i].index < raw[j].index

\* A batch whose only record is not the first data line, merged with a response that has
\* more items than the batch has records.
C16_Witness ==
    /\ ByAi /\ resp.status = HTTP_200_OK
    /\ Len(raw) = 1 /\ raw[1].index = 1
    /\ Len(AiItems) = 2

\* The text of amount column `col` of a data line is empty, blank or not a number.
NoNumberIn(row, col) ==
    Len(row) < col \/ Strip(row[col]) = <<>> \/ ~FloatOk(Strip(row[col]))

\* C17: parse_csv never raises; it returns an empty sequence when the request has no header
\* or no data line; otherwise it returns one record for each data line that has at least
\* 7 fields, and a record's amount is None exactly when the text of its column is empty or
\* does not parse as a number.
C17_ParseCsvLenient ==
    (pc = "done") =>
        /\ ~ParseCsvRaises(csv)
        /\ (Len(csv) <= 1 \/ Head(csv) = <<>>) => raw = <<>>
        /\ (Len(csv) > 1 /\ Head(csv) # <<>>) =>
              /\ Len(raw) = Cardinality(KeptPositions)
              /\ \A i \in 1..Len(raw) :
                    /\ raw[i].index \in KeptPositions
                    /\ IsNone(raw[i].amount_cad) <=> NoNumberIn(csv[raw[i].index + 2], 7)
                    /\ IsNone(raw[i].amount_usd) <=> NoNumberIn(csv[raw[i].index + 2], 8)

\* The positions, in the response array, of the items whose index equals that of record i.
ItemsFor(i) == {k \in 1..Len(AiItems) : AiItems[k].d.index = PyNum(raw[i].index)}

\* The fixed default of a classification field, for record i.
FieldDefault(i, field) ==
    CASE field = "type"           -> PyStr(Lit.expense)
      [] field = "category"       -> PyStr(Lit.uncategorized)
      [] field = "payment_source" -> PyStr(Lit.bank_checking)
      [] field = "vendor_name"    -> PyStr(raw[i].description1)
      [] field = "notes"          -> PyStr(Lit.empty)
      [] field = "confidence"     -> PyNum(50)

ClassificationFields == {"type", "category", "payment_source", "vendor_name", "notes", "confidence"}

\* What record i must hold in `field` after the merge: the value of the last item of its
\* index that the response holds when that item has the field, else the default.
FieldAfterMerge(i, field) ==
    IF ItemsFor(i) = {} THEN FieldDefault(i, field)
    ELSE LET k == CHOOSE k \in ItemsFor(i) : \A h \in ItemsFor(i) : h <= k
         IN  IF field \in DOMAIN AiItems[k].d THEN AiItems[k].d[field]
             ELSE FieldDefault(i, field)

\* The records as the claim says the merge leaves them.
AfterMerge ==
    [i \in 1..Len(raw) |->
        [f \in DOMAIN raw[i] \cup ClassificationFields |->
            IF f \in ClassificationFields THEN FieldAfterMerge(i, f) ELSE raw[i][f]]]

\* C18: after a successful merge every classification field of a record is the value the
\* response item of the record's index gives it, or the fixed default when that item lacks
\* the field or the response has no item of that index; the validator runs on exactly
\* these records.
C18_MergeDefaults == ByAi => txs = PostAiValidation(AfterMerge)

\* A merged batch with a record the response has no item for, and a record whose item
\* lacks a field.
C18_Witness ==
    /\ ByAi
    /\ \E i \in 1..Len(raw) : ItemsFor(i) = {}
    /\ \E i \in 1..Len(raw) :
          /\ ItemsFor(i) # {}
          /\ \E f \in ClassificationFields : f \notin DOMAIN CatMapGet(AiItems, raw[i].index)
          /\ \E f \in ClassificationFields : f \in DOMAIN CatMapGet(AiItems, raw[i].index)

\* The service instance exists and holds no model.
Degraded == instance = "no_model"

\* C19: once the service instance holds no model it holds none for the rest of the process
\* (get_bank_service never constructs again), and while it holds none no model call is
\* made: every classified batch is the rule-based classification of its records.
C19_DegradedForLife ==
    /\ [](Degraded =>
            /\ pc # "awaiting"
            /\ ai = NoOutcome
            /\ Classified => (path = "rule" /\ txs = RuleBasedCategorize(raw)
                              /\ stages = <<Stage.rule_based>>))
    /\ [][Degraded => Degraded']_vars

\* The degraded service has classified a batch.
C19_Witness == Degraded /\ ByRule /\ resp.status = HTTP_200_OK /\ Len(txs) = MaxRows

\* The model answered with a text the merge accepts: one JSON document (fences removed)
\* that is an array of objects with an "index" key, or an empty object.
MergeSucceeds ==
    /\ ai.kind = "text"
    /\ JsonOk(StripFences(ai.text))
    /\ ~CatMapRaises(StripFences(ai.text)[1].v)

\* The number of times stage s occurs in the stages of the batch.
Times(s) == Cardinality({k \in 1..Len(stages) : stages[k] = s})

\* C20: an invocation makes at most one model call, and it is the first stage; a finished
\* invocation went through the merge and then one validator pass, or through one
\* rule-based pass, never both; the validator ran exactly when the merge succeeded, on the
\* merged records, and the rule-based pass ran on the normalized records.
C20_StageOrder ==
    /\ Times(Stage.ai_call) <= 1
    /\ (pc = "awaiting") => (stages = <<Stage.ai_call>>)
    /\ Classified =>
          /\ stages \in { <<Stage.rule_based>>,
                          <<Stage.ai_call, Stage.rule_based>>,
                          <<Stage.ai_call, Stage.merge, Stage.validator>> }
          /\ (Times(Stage.validator) = 1) <=> (instance = "model" /\ MergeSucceeds)
          /\ (Times(Stage.validator) = 1) => (txs = PostAiValidation(MergedByAi))
          /\ (Times(Stage.rule_based) = 1) => (txs = RuleBasedCategorize(raw))

\* The model answered with a text the merge rejects, and the rule-based pass followed.
C20_Witness ==
    /\ Classified /\ ai.kind = "text" /\ ~MergeSucceeds
    /\ stages = <<Stage.ai_call, Stage.rule_based>>
    /\ Len(txs) = MaxRows

-----------------------------------------------------------------------------
(* C21-C30.                                                                *)

\* C21: whatever the other requests do, a finished request holds the response its own
\* csv_content, the service and its own model outcome determine; and the service
\* instance, once constructed, is never constructed again.
C21_BatchesIndependent ==
    /\ [](\A r \in Requests :
            (reqs[r].pc = "done") => (reqs[r].resp = ResponseTo(reqs[r].csv, instance, reqs[r].ai)))
    /\ [][(instance # "unset") => (instance' = instance)]_vars

\* Two requests with different batches have both passed the model call; one has finished
\* through the merge while the other one was waiting.
C21_Witness ==
    /\ reqs[1].pc = "done" /\ reqs[1].resp.status = HTTP_200_OK /\ reqs[1].ai.kind = "text"
    /\ reqs[2].pc = "awaiting"
    /\ reqs[1].csv # reqs[2].csv

\* parse_receipt has returned a ParsedReceiptData.
ReceiptReturned == receipt.pc = "done" /\ ~receipt.result.raised

\* C22: whenever parse_receipt returns, the four tax amounts are 0 if the jurisdiction of
\* the result is not "canada", and tax_amount is the sum of gst_amount, hst_amount and
\* pst_amount if it is.
C22_TaxByJurisdiction ==
    ReceiptReturned =>
        LET r == receipt.result
        IN  /\ (r.jurisdiction # Rc.canada) =>
                  (r.gst_amount = 0 /\ r.hst_amount = 0 /\ r.pst_amount = 0 /\ r.tax_amount = 0)
            /\ (r.jurisdiction = Rc.canada) =>
                  (r.tax_amount = r.gst_amount + r.hst_amount + r.pst_amount)

\* The last call asked the Bank of Canada API.
AskedApi == fx.last.mode # "none" /\ fx.last.requests > 0

\* The days back, within the window of the last call, whose request is answered with a
\* positive rate.
RateDays == {k \in 0..(LookBack - 1) : fx.last.window[k].k = "rate" /\ fx.last.window[k].v > 0}

\* The most recent of them.
LatestRateDay == CHOOSE k \in RateDays : \A j \in RateDays : k <= j

\* C23 as stated: a lookup returns the rate of the most recent day of the window that has a
\* positive published rate, the fallback 1.35 only when no day of the window has one, and
\* always a positive rate.
C23_MostRecentPublishedRate ==
    AskedApi =>
        /\ fx.last.result > 0
        /\ fx.last.result = IF RateDays = {} THEN FallbackRate
                            ELSE fx.last.window[LatestRateDay].v

\* A request for one of the days from the date back to the most recent day with a rate
\* raises.
FailsBeforeRate ==
    \E k \in 0..(LookBack - 1) :
        /\ fx.last.window[k].k = "raise"
        /\ RateDays # {} => k < LatestRateDay

\* C23, amended: a lookup returns the rate of the most recent day of the window that has a
\* positive published rate when no request made on the way to it raises; it returns the
\* fallback 1.35 when no day of the window has one or when such a request raises, the
\* look-back stopping there; the rate returned is always positive.
C23_MostRecentRateUnlessFailure ==
    AskedApi =>
        /\ fx.last.result > 0
        /\ fx.last.result = IF RateDays = {} \/ FailsBeforeRate THEN FallbackRate
                            ELSE fx.last.window[LatestRateDay].v
        /\ FailsBeforeRate =>
              fx.last.window[fx.last.requests - 1].k = "raise"

\* A lookup for a date whose own day and the day before have no rate (a weekend), answered
\* with the rate of the day before those.
C23_Witness ==
    /\ fx.last.mode = "simple" /\ fx.last.requests = 3
    /\ fx.last.window[0] = NoObservation /\ fx.last.window[1] = [k |-> "status"]
    /\ fx.last.result = 136

\* The type _post_ai_validation mandates for tx: the type of the first branch of lines
\* 293-384 whose pattern tx matches, PyNone when no branch matches or the matching
\* branch is a government one and the amount is not positive.
MandatedType(tx) ==
    LET desc1 == Desc1(tx)
        desc2 == Desc2(tx)
    IN  IF \/ InEither(tx, Kw.funds_transfer)
           \/ Contains(desc1, Kw.payment_thank_you) \/ Contains(desc1, Kw.paiement_merci)
           \/ Contains(desc2, Kw.payment_thank_you)
           \/ Contains(desc1, Kw.online_banking_transfer)
           \/ /\ Contains(desc1, Kw.credit_memo)
              /\ \E k \in {Kw.exchange, Kw.transfer, Kw.client_request} : Contains(desc2, k)
        THEN PyStr(Lit.transfer)
        ELSE IF \/ Contains(desc1, Kw.cash_withdrawal) \/ Contains(desc1, Kw.atm_withdrawal)
                \/ Contains(desc1, Kw.debit_memo) /\ \E k \in {Kw.owner, Kw.draw} : Contains(desc2, k)
        THEN PyStr(Lit.owner_draw)
        ELSE IF AnyIn(TaxKeywords, desc1, desc2) \/ InEither(tx, Kw.fed_govt)
        THEN IF EffectiveAmount(tx) > 0 THEN PyStr(Lit.tax_refund) ELSE PyNone
        ELSE IF /\ (Contains(desc1, Kw.e_transfer) \/ Contains(desc1, Kw.autodeposit))
                /\ \E name \in OwnerNames : Contains(desc2, name)
        THEN IF EffectiveAmount(tx) > 0 THEN PyStr(Lit.transfer) ELSE PyStr(Lit.owner_draw)
        ELSE PyNone

\* The fields of a record the validator has no business with.
FrameFields ==
    {"index", "date", "description1", "description2", "amount_cad", "amount_usd",
     "payment_source", "confidence"}

\* a and b have the same value, or both none, for field f.
SameField(a, b, f) ==
    /\ (f \in DOMAIN a) = (f \in DOMAIN b)
    /\ f \in DOMAIN a => a[f] = b[f]

\* C24: _post_ai_validation changes a record only when the record matches a forced
\* pattern and the type it has differs from the type the pattern mandates; every other
\* record leaves the validator exactly as it entered, and no record has its index,
\* date, descriptions, amounts, payment_source or confidence changed.
C24_ValidatorFrame ==
    ByAi => \A i \in Records :
        /\ (txs[i] # MergedByAi[i]) =>
              /\ MandatedType(MergedByAi[i]) # PyNone
              /\ Get(MergedByAi[i], "type", PyNone) # MandatedType(MergedByAi[i])
        /\ \A f \in FrameFields : SameField(txs[i], MergedByAi[i], f)

\* The validator overrode a record whose merged confidence and payment_source came from
\* the response, and left another record of the same batch alone.
C24_Witness ==
    /\ ByAi
    /\ Len(txs) = 2
    /\ txs[1] # MergedByAi[1]
    /\ txs[1].type = MandatedType(MergedByAi[1])
    /\ MergedByAi[1].confidence = PyNum(99)
    /\ MergedByAi[1].payment_source = PyStr(Lit.e_transfer)
    /\ txs[2] = MergedByAi[2]

\* tx matches one of the expense patterns the cascade tests ahead of its e-transfer
\* branches (lines 496-527).
EarlierExpensePattern(tx) ==
    LET desc1 == Desc1(tx)
        desc2 == Desc2(tx)
    IN  \/ Contains(desc1, Kw.auto_insurance) \/ Contains(desc2, Kw.icbc)
        \/ Contains(desc1, Kw.insurance) /\ Contains(desc2, Kw.cafo)
        \/ Contains(desc1, Kw.direct_deposits) \/ Contains(desc2, Kw.pay_emp)
        \/ Contains(desc1, Kw.commercial_taxes) \/ Contains(desc2, Kw.emptx)
        \/ \E k \in {Kw.monthly_fee, Kw.electronic_transaction_fee, Kw.service_fee,
                     Kw.items_on_deposit_fee, Kw.in_branch_cash_deposited_fee,
                     Kw.online_banking_wire_fee} : Contains(desc1, k)
        \/ Contains(desc1, Kw.business_pad) /\ Contains(desc2, Kw.tch_canada)

\* C25 (as claimed): in a batch classified by the rule-based classifier, a record with a
\* non-positive amount whose primary description contains "interac e-transfer fee", and
\* which matches no forced pattern and no expense pattern tested before, has category
\* office_admin, vendor_name "RBC" and payment_source bank_checking.
C25_InteracFeeIsBankFee ==
    ByRule => \A i \in Records :
        ( /\ EffectiveAmount(raw[i]) <= 0
          /\ Contains(Desc1(raw[i]), Kw.interac_e_transfer_fee)
          /\ ~RuleForcedPattern(raw[i])
          /\ ~EarlierExpensePattern(raw[i]) )
        => /\ txs[i].category = PyStr(Lit.office_admin)
           /\ txs[i].vendor_name = PyStr(Lit.v_rbc)
           /\ txs[i].payment_source = PyStr(Lit.bank_checking)

\* The five transaction types.
TransactionTypes == {Lit.income, Lit.expense, Lit.transfer, Lit.owner_draw, Lit.tax_refund}

KeptBefore(p) == Cardinality({q \in KeptPositions : q < p})

\* C27: the index of the i-th record parse_csv returns is the 0-based position, among all
\* the data rows after the header and counting the rows parse_csv dropped, of the i-th
\* row with at least 7 fields; the indices of the returned records strictly increase.
C27_IndexCountsDroppedRows ==
    (pc \in {"awaiting", "done"} /\ raw # <<>>) =>
        /\ \A i \in 1..Len(raw) :
              /\ raw[i].index \in KeptPositions
              /\ KeptBefore(raw[i].index) = i - 1
              /\ raw[i].index >= i - 1
        /\ \A i \in 1..(Len(raw) - 1) : raw[i].index < raw[i + 1].index

\* The first data row was dropped for having too few fields: the one record returned
\* stands first in the sequence and has index 1.
C27_Witness ==
    /\ ByRule
    /\ Len(csv) = 3 /\ Len(csv[2]) < MinFields
    /\ Len(raw) = 1 /\ raw[1].index = 1

\* The table has at most one entry for each date.
OneEntryPerDate == \A d \in RequestDates : Cardinality(EntriesFor(fx.cache, d)) <= 1

\* A step keeps every entry as it is, and an entry it adds is for the date of the call
\* and holds the positive rate the last API request of that call was answered with.
CacheGrowsByApiRates ==
    /\ fx.cache \subseteq fx'.cache
    /\ \A e \in fx'.cache \ fx.cache :
          /\ fx'.last.mode = "db" /\ fx'.last.requests > 0
          /\ e.date = fx'.last.date
          /\ e.usd_to_cad = PyNum(fx'.last.result)
          /\ fx'.last.window[fx'.last.requests - 1] = Published(fx'.last.result)

\* A call with a session for a date that has an entry returns the cached rate without
\* an API request; with `when_found`, this is said of the calls whose lookup succeeds.
AnsweredFromCache(when_found) ==
    \A e \in fx.cache :
        ( /\ fx.last = NoCall /\ fx'.last.mode = "db" /\ fx'.last.date = e.date
          /\ when_found => fx'.last.query_ok )
        => (fx'.last.requests = 0 /\ PyNum(fx'.last.result) = e.usd_to_cad)

\* C28 as stated: the cache holds at most one entry for a date, every cached value is a
\* rate the API returned, an entry is never overwritten, and every call with a session
\* for a date that has an entry is answered from the cache without an API request.
C28_CacheNeverBypassed ==
    /\ []OneEntryPerDate
    /\ [][CacheGrowsByApiRates /\ AnsweredFromCache(FALSE)]_vars

\* C28, amended: as above, but the call is answered from the cache when its cache lookup
\* succeeds; a call whose lookup raises asks the API although the date has an entry, and
\* leaves that entry as it is.
C28_CacheUnlessLookupFails ==
    /\ []OneEntryPerDate
    /\ [][CacheGrowsByApiRates /\ AnsweredFromCache(TRUE)]_vars

\* A call answered from the cache with the rate an earlier call stored, the fallback not
\* being among the stored rates.
C28_Witness ==
    /\ fx.last.mode = "db" /\ fx.last.requests = 0 /\ fx.last.query_ok
    /\ fx.last.result = 140
    /\ CacheEntry(fx.last.date, PyNum(140)) \in fx.cache
    /\ Cardinality(fx.cache) = 2

\* C29 (as claimed): a row made by upload_receipt starts with processing_status
\* "processing"; when the handler has finished, by whatever path, the row has status
\* "completed" or "error"; a row becomes "completed" only with is_verified false; and
\* no step sets is_verified of a row back from true to false.
C29_StatusSettlesUnverified ==
    /\ [](\A e \in ExpenseIds :
            /\ expenses[e].pc = "pipeline" => expenses[e].processing_status = "processing"
            /\ expenses[e].pc = "finished" =>
                  expenses[e].processing_status \in {"completed", "error"})
    /\ [][\A e \in ExpenseIds :
            /\ ( /\ expenses[e].processing_status # "completed"
                 /\ expenses'[e].processing_status = "completed" ) => ~expenses'[e].is_verified
            /\ expenses[e].is_verified => expenses'[e].is_verified]_vars

\* C30 (as claimed): no user has two stored cards with the same last four digits, and
\* match_card never finds more than one card.
C30_OneCardPerLastFour ==
    /\ \A a, b \in cards.table :
          (a.user_id = b.user_id /\ a.last_four = b.last_four) => a = b
    /\ cards.matched # "raises"

=============================================================================
